---- MODULE Spec2Model ----
(***************************************************************************)
(* Trading execution and staged capital deployment of shark-quant-trader.  *)
(*                                                                         *)
(*   OrderManagementSystem     src/src/live_trading/order_manager.py       *)
(*   BrokerAdapter variants    src/src/live_trading/brokers.py             *)
(*   CapitalTransitionManager  src/src/live_trading/transition.py          *)
(*   LiveMonitoringSystem      src/src/live_trading/monitor.py (alert log) *)
(*                                                                         *)
(* Money is counted in thousands of dollars, returns and drawdowns in      *)
(* percent, time in whole days (timedelta.days).                           *)
(***************************************************************************)
EXTENDS Integers, Sequences, FiniteSets, TLC

VARIABLES
    \* ---- OrderManagementSystem and its broker adapters ----
    brokers,          \* broker name -> "absent" | "demo" | "live"
    connected,        \* broker name -> adapter._connected
    order_counter,    \* orders handed to submit_order so far
    order_status,     \* order id -> LiveOrder.status
    order_log,        \* OrderManagementSystem.order_log
    executed_orders,  \* OrderManagementSystem.executed_orders
    oms_pc,           \* position of the submit_order coroutine
    cur_order,        \* the order of the running submit_order call
    attempt,          \* loop variable of the retry loop (0-based)
    oms_result,       \* OrderResponse returned by submit_order
    venue_accepts,    \* order id -> times the venue accepted the request
    call_outcomes,    \* outcomes of the adapter calls of the running call
    sleeps,           \* backoff delays awaited by the running call
    log_base,         \* Len(order_log) when the running call started
    \* ---- CapitalTransitionManager ----
    total_capital,
    current_stage,
    stage_start_date,
    stage_start_nav,
    system_failure_count,
    transition_log,
    now,              \* datetime.now(), in days
    ctm_ret,          \* last manager operation and what it returned
    \* ---- LiveMonitoringSystem ----
    alerts,           \* LiveMonitoringSystem.alerts (levels)
    \* ---- OrderManagementSystem.execute_order ----
    split_parent,     \* the order handed to execute_order
    split_price,      \* current_price handed to execute_order
    slices,           \* the orders execute_order submits, in order
    slice_routes,     \* the broker submit_order routes each of them to
    \* ---- PaperTradingEngine ----
    portfolio,        \* PaperTradingEngine.portfolio (PaperPortfolio)
    pending_orders,   \* order id -> PaperOrder
    paper_executed,   \* PaperTradingEngine.executed_orders (results)
    paper_order_counter,
    price_cache,      \* symbol -> price put by set_price
    paper_now,        \* datetime.now(), in seconds
    fills_applied,    \* order id -> times a fill of it changed the portfolio
    \* ---- PerformanceMonitor ----
    nav_history,
    returns_history,
    monitor_alerts,   \* PerformanceMonitor.alerts (levels)
    ic_history,       \* the ic of each ICPoint, NaN or a number
    volatility_cache, \* PaperTradingEngine._volatility_cache
    \* ---- GateValidationSystem ----
    trading_days_count,
    risk_levels_triggered,
    system_uptime_seconds,
    total_seconds,
    gate_history,     \* results of validate_phase_1_2_gates
    gate_returned,    \* the results the validations returned, in order
    \* ---- one BrokerAdapter (live_trading/brokers.py) ----
    adapter,          \* its class, constructor arguments, _connected, session
    adapter_ret,      \* how its last operation ended
    \* ---- coroutines running OrderManagementSystem.submit_order ----
    tasks,            \* per coroutine: position, broker, attempt
    wire,             \* calls, requests and replies in the order they happen
    \* ---- the event loop around CapitalTransitionManager ----
    stage_pc,         \* the statement advance_stage/rollback_stage is at
    observed,         \* the stage triples a reader has seen
    \* ---- RiskManager (risk/manager.py) and the Portfolio it is shown ----
    current_level,    \* RiskManager.current_level
    risk_portfolio,   \* nav and peak_nav of the Portfolio handed to it
    risk_ret          \* what its last operation returned

omsVars == <<brokers, connected, order_counter, order_status, order_log,
             executed_orders, oms_pc, cur_order, attempt, oms_result,
             venue_accepts, call_outcomes, sleeps, log_base>>
ctmVars == <<total_capital, current_stage, stage_start_date, stage_start_nav,
             system_failure_count, transition_log, now, ctm_ret>>
splitVars == <<split_parent, split_price, slices, slice_routes>>
paperVars == <<portfolio, pending_orders, paper_executed,
               paper_order_counter, price_cache, paper_now,
               fills_applied, nav_history, returns_history, monitor_alerts,
                   ic_history, volatility_cache>>
gateVars == <<trading_days_count, risk_levels_triggered,
              system_uptime_seconds, total_seconds, gate_history,
              gate_returned>>
adapterVars == <<adapter, adapter_ret>>
taskVars == <<tasks, wire>>
stageVars == <<stage_pc, observed>>
riskVars == <<current_level, risk_portfolio, risk_ret>>
liveVars == <<adapterVars, taskVars, stageVars, riskVars>>
restVars == <<alerts, splitVars, paperVars, gateVars, liveVars>>
vars == <<omsVars, ctmVars, restVars>>

----------------------------------------------------------------------------
\* Bounds of the exploration
MaxOrders == 2
MaxFailures == 3
MaxLog == 3
MaxNow == 70
MaxPaperOrders == 2
MaxLiquidationOrders == 3
MaxTasks == 2
MaxReads == 2
MaxDays == 1
MaxPaperNow == 900
MaxTradingDays == 64
MaxTotalSeconds == 1000
MaxGateChecks == 1
MaxICPoints == 1

----------------------------------------------------------------------------
\* Quantities, prices and money are Python floats in the source; they are
\* modelled as exact fractions [n |-> numerator, d |-> denominator] in
\* lowest terms with d > 0.

Abs(i) == IF i < 0 THEN -i ELSE i

RECURSIVE GCD(_, _)
GCD(a, b) == IF b = 0 THEN a ELSE GCD(b, a % b)

Rat(n, d) ==
    LET g == GCD(Abs(n), Abs(d))
        sgn == IF d < 0 THEN -1 ELSE 1
    IN [n |-> sgn * (n \div g), d |-> sgn * (d \div g)]

Zero == [n |-> 0, d |-> 1]
One == [n |-> 1, d |-> 1]

LCM(a, b) == (a \div GCD(a, b)) * b

RAdd(a, b) ==
    LET l == LCM(a.d, b.d)
    IN Rat(a.n * (l \div a.d) + b.n * (l \div b.d), l)

RNeg(a) == [n |-> -a.n, d |-> a.d]

RSub(a, b) == RAdd(a, RNeg(b))

RMul(a, b) ==
    LET g1 == GCD(Abs(a.n), b.d)
        g2 == GCD(Abs(b.n), a.d)
    IN [n |-> (a.n \div g1) * (b.n \div g2),
        d |-> (a.d \div g2) * (b.d \div g1)]

\* a / b for b other than zero
RDiv(a, b) ==
    RMul(a, IF b.n < 0 THEN [n |-> -b.d, d |-> -b.n]
            ELSE [n |-> b.d, d |-> b.n])

\* a < b, by whole parts and then by the reciprocals of the remainders
RECURSIVE RLt(_, _)
RLt(a, b) ==
    LET qa == a.n \div a.d
        qb == b.n \div b.d
        ra == a.n % a.d
        rb == b.n % b.d
    IN IF qa # qb THEN qa < qb
       ELSE IF rb = 0 THEN FALSE
       ELSE IF ra = 0 THEN TRUE
       ELSE RLt([n |-> b.d, d |-> rb], [n |-> a.d, d |-> ra])

RLe(a, b) == ~RLt(b, a)

RMin(a, b) == IF RLt(b, a) THEN b ELSE a

\* int(x) for x >= 0
RInt(a) == a.n \div a.d

----------------------------------------------------------------------------
\* OrderManagementSystem

BrokerNames == {"alpaca", "binance", "ibkr"}
Symbols == {"SPY", "TLT", "BTC-USD", "ETHUSDT", "eur/usd", "AAPL", "spy",
            "ADAP"}

crypto_symbols ==
    {"BTC", "ETH", "BNB", "SOL", "XRP", "USDT", "USDC", "DOGE", "ADA"}
us_etfs ==
    {"GLD", "SPY", "QQQ", "SLV", "XLK", "XLF", "XLE", "XLV", "TLT", "TIP",
     "EFA", "EEM", "DBC", "VNQ"}

max_single_order_usd == 50000
slice_count == 5

max_retries == 3
retry_delay_seconds == 5
exponential_backoff == TRUE

\* configurations handed to the constructor: the one of the demo (two
\* simulated venues, no catch-all venue) and one with a live, a simulated
\* and a missing venue
BrokerConfigs ==
    {[b \in BrokerNames |->
         IF b = "ibkr" THEN "absent" ELSE "demo"],
     [b \in BrokerNames |->
         IF b = "alpaca" THEN "live"
         ELSE IF b = "binance" THEN "demo" ELSE "absent"],
     [b \in BrokerNames |->
         IF b = "ibkr" THEN "live"
         ELSE IF b = "alpaca" THEN "demo" ELSE "absent"]}

ResponseStatuses == {"FILLED", "PARTIAL", "SUBMITTED", "REJECTED"}

\* LiveOrder; an Optional[float] is <<>> for None and <<x>> for a value
LiveOrder(id, symbol, side, quantity, order_type, limit_price) ==
    [order_id |-> id, symbol |-> symbol, side |-> side,
     quantity |-> quantity, order_type |-> order_type,
     limit_price |-> limit_price]

\* orders the caller hands to submit_order (the order id is given on entry)
OrderInputs ==
    {LiveOrder(0, "SPY", "BUY", Rat(10, 1), "MARKET", <<>>),
     LiveOrder(0, "BTC-USD", "SELL", Rat(1, 2), "LIMIT", <<Rat(60000, 1)>>),
     LiveOrder(0, "AAPL", "BUY", Rat(10, 1), "LIMIT", <<>>)}

NoOrder == LiveOrder(0, "SPY", "BUY", Zero, "MARKET", <<>>)
NoResult == [broker_order_id |-> 0, status |-> "NONE",
             message |-> [kind |-> "none", n |-> 0, broker |-> ""]]

RECURSIVE Pow2(_)
Pow2(n) == IF n = 0 THEN 1 ELSE 2 * Pow2(n - 1)

Lowercase == "abcdefghijklmnopqrstuvwxyz"
Uppercase == "ABCDEFGHIJKLMNOPQRSTUVWXYZ"

\* str.upper, character by character
UpperChar(c) ==
    IF \E i \in 1..26 : SubSeq(Lowercase, i, i) = c
    THEN LET i == CHOOSE i \in 1..26 : SubSeq(Lowercase, i, i) = c
         IN SubSeq(Uppercase, i, i)
    ELSE c

RECURSIVE Upper(_)
Upper(str) ==
    IF Len(str) = 0 THEN ""
    ELSE UpperChar(SubSeq(str, 1, 1)) \o Upper(SubSeq(str, 2, Len(str)))

\* sub in str
Contains(str, sub) ==
    \E i \in 1..(Len(str) - Len(sub) + 1) :
        SubSeq(str, i, i + Len(sub) - 1) = sub

\* str.endswith(suffix)
EndsWith(str, suffix) ==
    /\ Len(str) >= Len(suffix)
    /\ SubSeq(str, Len(str) - Len(suffix) + 1, Len(str)) = suffix

\* a router that sends every symbol it does not know as crypto to alpaca
route_order_EtfDefault(symbol) ==
    LET symbol_upper == Upper(symbol) IN
    IF \E crypto \in crypto_symbols : Contains(symbol_upper, crypto)
    THEN "binance"
    ELSE "alpaca"

route_order(symbol) ==
    LET symbol_upper == Upper(symbol) IN
    IF \E crypto \in crypto_symbols : Contains(symbol_upper, crypto)
    THEN "binance"
    ELSE IF \/ EndsWith(symbol_upper, "-USD")
            \/ EndsWith(symbol_upper, "/USD")
            \/ EndsWith(symbol_upper, "USDT")
    THEN "binance"
    ELSE IF symbol \in us_etfs THEN "alpaca"
    ELSE "ibkr"

\* OrderResponse built by the adapter from the venue's answer
BrokerResponse(o, s) ==
    [broker_order_id |-> o.order_id, status |-> s,
     message |-> [kind |-> "broker", n |-> 0, broker |-> ""]]

\* "Broker {broker_name} not available"
NotAvailableResponse(broker_name) ==
    [broker_order_id |-> 0, status |-> "REJECTED",
     message |-> [kind |-> "not_available", n |-> 0, broker |-> broker_name]]

FailedResponse(n) ==
    [broker_order_id |-> 0, status |-> "REJECTED",
     message |-> [kind |-> "failed_after", n |-> n, broker |-> ""]]

OrderLogEntry(o, b, n, res, err) ==
    [order |-> o.order_id, broker |-> b, attempt |-> n,
     result |-> res, error |-> err]

\* a backoff that does not grow
RetryDelay_Constant(a) == retry_delay_seconds

\* delay awaited after the failed attempt with loop index a
RetryDelay(a) ==
    IF exponential_backoff THEN retry_delay_seconds * Pow2(a)
    ELSE retry_delay_seconds

\* the except branch sleeps and loops again, or gives up
HasRetryLeft(a) == a < max_retries - 1

\* what adapter.submit_order can do for a venue in the given mode: a demo
\* adapter answers FILLED; a live adapter returns the venue's answer or
\* raises, before the request reached the venue or after the venue took it
AdapterOutcomes(mode) ==
    IF mode = "demo"
    THEN {[kind |-> "return", status |-> "FILLED", taken |-> TRUE]}
    ELSE {[kind |-> "return", status |-> s, taken |-> (s # "REJECTED")] :
              s \in ResponseStatuses}
         \cup {[kind |-> "raise", status |-> "NONE", taken |-> t] :
              t \in BOOLEAN}

\* adapter.connect as called at the top of adapter.submit_order
ConnectOutcomes(b) ==
    IF connected[b] THEN {TRUE}
    ELSE IF brokers[b] = "demo" THEN {TRUE}
    ELSE {TRUE, FALSE}

\* a submit_order that skips the broker lookup and calls the adapter anyway
SubmitOrder_NoLookup(ord) ==
    /\ oms_pc = "idle"
    /\ order_counter < MaxOrders
    /\ order_counter' = order_counter + 1
    /\ cur_order' = [ord EXCEPT !.order_id = order_counter + 1]
    /\ attempt' = 0
    /\ call_outcomes' = <<>>
    /\ sleeps' = <<>>
    /\ log_base' = Len(order_log)
    /\ oms_result' = NoResult
    /\ oms_pc' = "calling"
    /\ UNCHANGED <<brokers, connected, order_status, order_log,
                   executed_orders, venue_accepts>>
    /\ UNCHANGED <<ctmVars, restVars>>

\* submit_order up to its first await: routing and broker lookup
SubmitOrder(ord) ==
    /\ oms_pc = "idle"
    /\ order_counter < MaxOrders
    /\ LET o == [ord EXCEPT !.order_id = order_counter + 1]
           b == route_order(ord.symbol)
       IN /\ order_counter' = order_counter + 1
          /\ cur_order' = o
          /\ attempt' = 0
          /\ call_outcomes' = <<>>
          /\ sleeps' = <<>>
          /\ log_base' = Len(order_log)
          /\ IF brokers[b] = "absent"
             THEN /\ oms_result' = NotAvailableResponse(b)
                  /\ oms_pc' = "done"
             ELSE /\ oms_result' = NoResult
                  /\ oms_pc' = "calling"
    /\ UNCHANGED <<brokers, connected, order_status, order_log,
                   executed_orders, venue_accepts>>
    /\ UNCHANGED <<ctmVars, restVars>>

\* the adapter call of the current attempt returns an OrderResponse with
\* status s; submit_order logs it and goes on at next_pc
AdapterReturned(s, next_pc) ==
    /\ oms_pc = "calling"
    /\ LET b == route_order(cur_order.symbol)
           id == cur_order.order_id
       IN /\ \E out \in AdapterOutcomes(brokers[b]) :
                /\ out.kind = "return"
                /\ out.status = s
                /\ venue_accepts' =
                     [venue_accepts EXCEPT
                        ![id] = @ + (IF out.taken THEN 1 ELSE 0)]
          /\ \E c \in ConnectOutcomes(b) :
                connected' = [connected EXCEPT ![b] = c]
          /\ order_log' = Append(order_log,
                 OrderLogEntry(cur_order, b, attempt + 1, s, FALSE))
          /\ IF s \in {"FILLED", "PARTIAL"}
             THEN /\ order_status' = [order_status EXCEPT ![id] = s]
                  /\ executed_orders' = Append(executed_orders, id)
             ELSE UNCHANGED <<order_status, executed_orders>>
          /\ oms_result' = BrokerResponse(cur_order, s)
          /\ call_outcomes' = Append(call_outcomes, s)
          /\ oms_pc' = next_pc
    /\ UNCHANGED <<brokers, order_counter, cur_order, attempt, sleeps,
                   log_base>>
    /\ UNCHANGED <<ctmVars, restVars>>

\* a submit_order that treats a REJECTED response like a transport failure
BrokerReturns_RetryRejected(s) ==
    AdapterReturned(s, IF s = "REJECTED" /\ HasRetryLeft(attempt)
                       THEN "sleeping" ELSE "done")

\* line 143: whatever the status, the response is returned at once
BrokerReturns(s) == AdapterReturned(s, "done")

\* the adapter call of the current attempt raises
BrokerRaises(taken) ==
    /\ oms_pc = "calling"
    /\ LET b == route_order(cur_order.symbol)
           id == cur_order.order_id
       IN /\ \E out \in AdapterOutcomes(brokers[b]) :
                /\ out.kind = "raise"
                /\ out.taken = taken
          /\ venue_accepts' =
                [venue_accepts EXCEPT ![id] = @ + (IF taken THEN 1 ELSE 0)]
          /\ \E c \in ConnectOutcomes(b) :
                connected' = [connected EXCEPT ![b] = c]
          /\ call_outcomes' = Append(call_outcomes, "RAISED")
          /\ IF HasRetryLeft(attempt)
             THEN /\ sleeps' = Append(sleeps, RetryDelay(attempt))
                  /\ oms_pc' = "sleeping"
                  /\ UNCHANGED <<order_log, oms_result>>
             ELSE /\ order_log' = Append(order_log,
                        OrderLogEntry(cur_order, b, attempt + 1, "NONE", TRUE))
                  /\ oms_result' = FailedResponse(attempt + 1)
                  /\ oms_pc' = "done"
                  /\ UNCHANGED sleeps
    /\ UNCHANGED <<brokers, order_counter, order_status, executed_orders,
                   cur_order, attempt, log_base>>
    /\ UNCHANGED <<ctmVars, restVars>>

\* asyncio.sleep(delay) completes and the loop takes the next attempt
BackoffElapsed ==
    /\ oms_pc = "sleeping"
    /\ attempt' = attempt + 1
    /\ oms_pc' = "calling"
    /\ UNCHANGED <<brokers, connected, order_counter, order_status, order_log,
                   executed_orders, cur_order, oms_result, venue_accepts,
                   call_outcomes, sleeps, log_base>>
    /\ UNCHANGED <<ctmVars, restVars>>

\* the coroutine has returned: its locals are gone and the next order can come
SubmitReturned ==
    /\ oms_pc = "done"
    /\ oms_pc' = "idle"
    /\ cur_order' = NoOrder
    /\ attempt' = 0
    /\ oms_result' = NoResult
    /\ call_outcomes' = <<>>
    /\ sleeps' = <<>>
    /\ log_base' = Len(order_log)
    /\ UNCHANGED <<brokers, connected, order_counter, order_status, order_log,
                   executed_orders, venue_accepts>>
    /\ UNCHANGED <<ctmVars, restVars>>

\* The task running submit_order is cancelled while it waits in
\* asyncio.sleep: CancelledError is raised at that await, inside the except
\* handler, so no except clause of the loop catches it and it leaves the
\* coroutine
CancelBackoff_FinalAttempt ==
    /\ oms_pc = "sleeping"
    /\ oms_pc' = "cancelled"
    /\ venue_accepts' = [venue_accepts EXCEPT ![cur_order.order_id] = @ + 1]
    /\ call_outcomes' = Append(call_outcomes, "CANCELLED")
    /\ UNCHANGED <<brokers, connected, order_counter, order_status, order_log,
                   executed_orders, cur_order, attempt, oms_result, sleeps,
                   log_base>>
    /\ UNCHANGED <<ctmVars, restVars>>

CancelBackoff ==
    /\ oms_pc = "sleeping"
    /\ oms_pc' = "cancelled"
    /\ UNCHANGED <<brokers, connected, order_counter, order_status, order_log,
                   executed_orders, cur_order, attempt, oms_result,
                   venue_accepts, call_outcomes, sleeps, log_base>>
    /\ UNCHANGED <<ctmVars, restVars>>

\* The task is cancelled while it awaits broker.submit_order of a live
\* adapter (a demo adapter never suspends): CancelledError is not an
\* Exception, so neither the adapter nor the loop catches it; the request
\* may or may not have reached the venue
CancelCall(taken) ==
    /\ oms_pc = "calling"
    /\ brokers[route_order(cur_order.symbol)] = "live"
    /\ oms_pc' = "cancelled"
    /\ venue_accepts' = [venue_accepts EXCEPT
                            ![cur_order.order_id] = @ + (IF taken THEN 1 ELSE 0)]
    /\ \E c \in ConnectOutcomes(route_order(cur_order.symbol)) :
          connected' = [connected EXCEPT ![route_order(cur_order.symbol)] = c]
    /\ call_outcomes' = Append(call_outcomes, "CANCELLED")
    /\ UNCHANGED <<brokers, order_counter, order_status, order_log,
                   executed_orders, cur_order, attempt, oms_result, sleeps,
                   log_base>>
    /\ UNCHANGED <<ctmVars, restVars>>

\* the cancelled coroutine is gone; the program can submit another order
CancelledTaskEnds ==
    /\ oms_pc = "cancelled"
    /\ oms_pc' = "idle"
    /\ cur_order' = NoOrder
    /\ attempt' = 0
    /\ oms_result' = NoResult
    /\ call_outcomes' = <<>>
    /\ sleeps' = <<>>
    /\ log_base' = Len(order_log)
    /\ UNCHANGED <<brokers, connected, order_counter, order_status, order_log,
                   executed_orders, venue_accepts>>
    /\ UNCHANGED <<ctmVars, restVars>>

----------------------------------------------------------------------------
\* OrderManagementSystem.execute_order: splitting and routing of the slices

\* inputs of execute_order, prices in dollars
SplitQuantities == {400, 501, 1000, 1001, 1500, 2500, 25000}
SplitPrices == {0, 100}

should_split_order(order, current_price) ==
    IF RLe(current_price, Zero) THEN FALSE
    ELSE RLt(Rat(max_single_order_usd, 1),
             RMul(order.quantity, current_price))

\* number of slices split_order cuts the order into
SliceCount(order, current_price) ==
    LET total_value == RMul(order.quantity, current_price)
        by_value == RInt(RDiv(total_value, Rat(max_single_order_usd, 1))) + 1
    IN IF slice_count < by_value THEN slice_count ELSE by_value

\* a splitter that rounds the slice quantity down to whole units
split_order_WholeUnits(order, current_price, counter) ==
    LET n == SliceCount(order, current_price)
        q == RDiv(order.quantity, Rat(n, 1))
    IN [i \in 1..n |->
          LiveOrder(counter + i, order.symbol, order.side,
                    Rat(RInt(q), 1), "LIMIT",
                    <<RMul(current_price,
                           IF order.side = "BUY" THEN Rat(1001, 1000)
                           ELSE Rat(999, 1000))>>)]

\* the slices split_order returns when the id counter stands at counter
split_order(order, current_price, counter) ==
    LET n == SliceCount(order, current_price)
        slice_quantity == RDiv(order.quantity, Rat(n, 1))
    IN [i \in 1..n |->
          LiveOrder(counter + i, order.symbol, order.side,
                    slice_quantity, "LIMIT",
                    <<RMul(current_price,
                           IF order.side = "BUY" THEN Rat(1001, 1000)
                           ELSE Rat(999, 1000))>>)]

\* execute_order, large order: the order is cut into slices
ExecuteOrderSplit ==
    /\ slices = <<>>
    /\ should_split_order(split_parent, split_price)
    /\ slices' = split_order(split_parent, split_price, order_counter)
    /\ order_counter' = order_counter + Len(slices')
    /\ UNCHANGED <<split_parent, split_price, slice_routes, alerts, gateVars,
                   paperVars, liveVars>>
    /\ UNCHANGED <<brokers, connected, order_status, order_log,
                   executed_orders, oms_pc, cur_order, attempt, oms_result,
                   venue_accepts, call_outcomes, sleeps, log_base>>
    /\ UNCHANGED ctmVars

\* execute_order, small order: the order itself is submitted
ExecuteOrderWhole ==
    /\ slices = <<>>
    /\ ~should_split_order(split_parent, split_price)
    /\ slices' = <<split_parent>>
    /\ UNCHANGED <<split_parent, split_price, slice_routes, alerts, gateVars,
                   paperVars, liveVars>>
    /\ UNCHANGED <<omsVars, ctmVars>>

\* submit_order routes every order execute_order hands to it
RouteSlices ==
    /\ slices # <<>>
    /\ slice_routes = <<>>
    /\ slice_routes' = [i \in DOMAIN slices |-> route_order(slices[i].symbol)]
    /\ UNCHANGED <<split_parent, split_price, slices, alerts, paperVars,
                   gateVars, liveVars>>
    /\ UNCHANGED <<omsVars, ctmVars>>

----------------------------------------------------------------------------
\* CapitalTransitionManager

DEFAULT_STAGES ==
    << [name |-> "Stage 1", capital_pct |-> 10, duration_weeks |-> 4,
        loss_limit |-> 5],
       [name |-> "Stage 2", capital_pct |-> 25, duration_weeks |-> 4,
        loss_limit |-> 5],
       [name |-> "Stage 3", capital_pct |-> 50, duration_weeks |-> 2,
        loss_limit |-> 5],
       [name |-> "Stage 4", capital_pct |-> 100, duration_weeks |-> 0,
        loss_limit |-> 10] >>

stages == DEFAULT_STAGES

daily_loss_threshold == 3
cumulative_dd_threshold == 10
failure_limit == 2

\* inputs of the manager's operations
TotalCapitals == {0, 100}
NavValues == {-100, 94, 95, 105}
DailyReturns == {-4, -3, 0}
Drawdowns == {0, 10, 11}
TickDays == {14}

\* stages is 0-indexed in the source
current_stage_info == stages[current_stage + 1]

get_days_in_stage == now - stage_start_date

\* a manager that waives the stage duration
required_days_Waived(stage) == 0

required_days(stage) ==
    IF stage.duration_weeks # 0 THEN stage.duration_weeks * 7 ELSE 0

\* a stage return measured from the total capital
StageLossExceeded_FromCapital(current_nav, stage) ==
    (current_nav - total_capital) * 100 < -(stage.loss_limit) * total_capital

\* (current_nav - stage_start_nav) / stage_start_nav < -loss_limit, for the
\* positive stage_start_nav the source computes it for
StageLossExceeded(current_nav, stage) ==
    (current_nav - stage_start_nav) * 100 < -(stage.loss_limit) * stage_start_nav

\* a check that forgets the stage loss limit
can_advance_stage_NoLossLimit(current_nav) ==
    LET stage == current_stage_info IN
    IF current_stage >= Len(stages) - 1
    THEN [ok |-> FALSE, reason |-> "final"]
    ELSE IF required_days(stage) > 0 /\ get_days_in_stage < required_days(stage)
    THEN [ok |-> FALSE, reason |-> "duration"]
    ELSE [ok |-> TRUE, reason |-> "met"]

can_advance_stage(current_nav) ==
    LET stage == current_stage_info IN
    IF current_stage >= Len(stages) - 1
    THEN [ok |-> FALSE, reason |-> "final"]
    ELSE IF required_days(stage) > 0 /\ get_days_in_stage < required_days(stage)
    THEN [ok |-> FALSE, reason |-> "duration"]
    ELSE IF stage_start_nav > 0 /\ StageLossExceeded(current_nav, stage)
    THEN [ok |-> FALSE, reason |-> "loss"]
    ELSE [ok |-> TRUE, reason |-> "met"]

\* _log_transition reads current_stage when it is called, for both fields
TransitionEvent(action, stage) ==
    [action |-> action, from_stage |-> stage, to_stage |-> stage]

\* a logger that keeps only the latest event
log_transition_KeepLast(action, stage) ==
    <<TransitionEvent(action, stage)>>

\* _log_transition: the event is appended to transition_log
log_transition(action, stage) ==
    Append(transition_log, TransitionEvent(action, stage))

Ret(op, ok, signal, nav) ==
    [op |-> op, ok |-> ok, signal |-> signal, nav |-> nav]

CanAdvanceStage(nav) ==
    /\ ctm_ret' = Ret("can_advance_stage", can_advance_stage(nav).ok,
                      can_advance_stage(nav).reason, nav)
    /\ UNCHANGED <<total_capital, current_stage, stage_start_date,
                   stage_start_nav, system_failure_count, transition_log, now>>
    /\ UNCHANGED <<omsVars, restVars>>

\* an advance that keeps the NAV baseline of the stage it leaves
AdvanceStage_KeepBaseline(nav) ==
    /\ can_advance_stage(nav).ok => Len(transition_log) < MaxLog
    /\ IF ~can_advance_stage(nav).ok
       THEN /\ ctm_ret' = Ret("advance_stage", FALSE,
                              can_advance_stage(nav).reason, nav)
            /\ UNCHANGED <<current_stage, stage_start_date, stage_start_nav,
                           transition_log>>
       ELSE /\ current_stage' = current_stage + 1
            /\ stage_start_date' = now
            /\ UNCHANGED stage_start_nav
            /\ transition_log' = Append(transition_log,
                   TransitionEvent("ADVANCE", current_stage + 1))
            /\ ctm_ret' = Ret("advance_stage", TRUE, "advanced", nav)
    /\ UNCHANGED <<total_capital, system_failure_count, now>>
    /\ UNCHANGED <<omsVars, restVars>>

AdvanceStage(nav) ==
    /\ can_advance_stage(nav).ok => Len(transition_log) < MaxLog
    /\ IF ~can_advance_stage(nav).ok
       THEN /\ ctm_ret' = Ret("advance_stage", FALSE,
                              can_advance_stage(nav).reason, nav)
            /\ UNCHANGED <<current_stage, stage_start_date, stage_start_nav,
                           transition_log>>
       ELSE IF current_stage < Len(stages) - 1
       THEN /\ current_stage' = current_stage + 1
            /\ stage_start_date' = now
            /\ stage_start_nav' = nav
            /\ transition_log' = log_transition("ADVANCE", current_stage + 1)
            /\ ctm_ret' = Ret("advance_stage", TRUE, "advanced", nav)
       ELSE /\ ctm_ret' = Ret("advance_stage", FALSE, "final", nav)
            /\ UNCHANGED <<current_stage, stage_start_date, stage_start_nav,
                           transition_log>>
    /\ UNCHANGED <<total_capital, system_failure_count, now>>
    /\ UNCHANGED <<omsVars, restVars>>

\* a rollback that falls back to the first stage
RollbackStage_ToFirst ==
    /\ current_stage > 0 => Len(transition_log) < MaxLog
    /\ IF current_stage > 0
       THEN /\ current_stage' = 0
            /\ stage_start_date' = now
            /\ transition_log' = Append(transition_log,
                   TransitionEvent("ROLLBACK", 0))
            /\ ctm_ret' = Ret("rollback_stage", TRUE, "rolled_back", 0)
       ELSE /\ ctm_ret' = Ret("rollback_stage", FALSE, "first", 0)
            /\ UNCHANGED <<current_stage, stage_start_date, transition_log>>
    /\ UNCHANGED <<total_capital, stage_start_nav, system_failure_count, now>>
    /\ UNCHANGED <<omsVars, restVars>>

RollbackStage ==
    /\ current_stage > 0 => Len(transition_log) < MaxLog
    /\ IF current_stage > 0
       THEN /\ current_stage' = current_stage - 1
            /\ stage_start_date' = now
            /\ transition_log' = log_transition("ROLLBACK", current_stage - 1)
            /\ ctm_ret' = Ret("rollback_stage", TRUE, "rolled_back", 0)
       ELSE /\ ctm_ret' = Ret("rollback_stage", FALSE, "first", 0)
            /\ UNCHANGED <<current_stage, stage_start_date, transition_log>>
    /\ UNCHANGED <<total_capital, stage_start_nav, system_failure_count, now>>
    /\ UNCHANGED <<omsVars, restVars>>

\* the signal check_rollback_triggers returns
check_rollback_triggers(daily_return, cumulative_dd) ==
    IF daily_return < -daily_loss_threshold THEN "EVALUATE"
    ELSE IF cumulative_dd > cumulative_dd_threshold THEN "ROLLBACK_STAGE"
    ELSE IF system_failure_count >= failure_limit THEN "ROLLBACK_TO_PAPER"
    ELSE "None"

\* a trigger check that clears the failure counter once it has reported it
CheckRollbackTriggers_ClearsCount(daily_return, cumulative_dd) ==
    /\ check_rollback_triggers(daily_return, cumulative_dd) # "None"
           => Len(transition_log) < MaxLog
    /\ LET signal == check_rollback_triggers(daily_return, cumulative_dd)
       IN /\ transition_log' =
                IF signal = "None" THEN transition_log
                ELSE Append(transition_log,
                            TransitionEvent(signal, current_stage))
          /\ system_failure_count' =
                IF signal = "ROLLBACK_TO_PAPER" THEN 0
                ELSE system_failure_count
          /\ ctm_ret' = Ret("check_rollback_triggers", signal # "None",
                            signal, 0)
    /\ UNCHANGED <<total_capital, current_stage, stage_start_date,
                   stage_start_nav, now>>
    /\ UNCHANGED <<omsVars, restVars>>

CheckRollbackTriggers(daily_return, cumulative_dd) ==
    /\ check_rollback_triggers(daily_return, cumulative_dd) # "None"
           => Len(transition_log) < MaxLog
    /\ LET signal == check_rollback_triggers(daily_return, cumulative_dd)
       IN /\ transition_log' =
                IF signal = "None" THEN transition_log
                ELSE log_transition(signal, current_stage)
          /\ ctm_ret' = Ret("check_rollback_triggers", signal # "None",
                            signal, 0)
    /\ UNCHANGED <<total_capital, current_stage, stage_start_date,
                   stage_start_nav, system_failure_count, now>>
    /\ UNCHANGED <<omsVars, restVars>>

RecordSystemFailure ==
    /\ system_failure_count < MaxFailures
    /\ system_failure_count' = system_failure_count + 1
    /\ ctm_ret' = Ret("record_system_failure", TRUE, "None", 0)
    /\ UNCHANGED <<total_capital, current_stage, stage_start_date,
                   stage_start_nav, transition_log, now>>
    /\ UNCHANGED <<omsVars, restVars>>

ResetSystemFailures ==
    /\ system_failure_count' = 0
    /\ ctm_ret' = Ret("reset_system_failures", TRUE, "None", 0)
    /\ UNCHANGED <<total_capital, current_stage, stage_start_date,
                   stage_start_nav, transition_log, now>>
    /\ UNCHANGED <<omsVars, restVars>>

\* the wall clock moves on between two operations
Tick(d) ==
    /\ now + d <= MaxNow
    /\ now' = now + d
    /\ ctm_ret' = Ret("tick", TRUE, "None", 0)
    /\ UNCHANGED <<total_capital, current_stage, stage_start_date,
                   stage_start_nav, system_failure_count, transition_log>>
    /\ UNCHANGED <<omsVars, restVars>>

----------------------------------------------------------------------------
\* advance_stage and rollback_stage statement by statement, and a reader of
\* the manager on the same event loop. Both methods are plain functions
\* without an await, so the loop runs nothing else until they return.

\* no stage change is under way
IdleStage ==
    [at |-> "idle", op |-> "none", current_nav |-> 0, before |-> <<0, 0, 0>>]

\* the stage pointer, the stage clock and the stage-start NAV
StageTriple == <<current_stage, stage_start_date, stage_start_nav>>

\* the triple the stage change under way leaves when it goes on from here
ProjectedTriple ==
    IF stage_pc.at = "idle" THEN StageTriple
    ELSE <<IF stage_pc.op = "advance" THEN stage_pc.before[1] + 1
           ELSE stage_pc.before[1] - 1,
           IF stage_pc.at \in {"pointer", "clock"} THEN now
           ELSE stage_start_date,
           IF stage_pc.op = "advance" THEN stage_pc.current_nav
           ELSE stage_pc.before[3]>>

UnchangedBySteps ==
    UNCHANGED <<omsVars, alerts, splitVars, paperVars, gateVars,
                adapterVars, taskVars, riskVars, total_capital,
                system_failure_count, now>>

\* advance_stage up to the first assignment: the check, and the early return
BeginAdvance(current_nav) ==
    /\ stage_pc.at = "idle"
    /\ Len(transition_log) < MaxLog
    /\ IF can_advance_stage(current_nav).ok
       THEN /\ stage_pc' = [at |-> "pointer", op |-> "advance",
                            current_nav |-> current_nav,
                            before |-> StageTriple]
            /\ UNCHANGED ctm_ret
       ELSE /\ ctm_ret' = Ret("advance_stage", FALSE,
                              can_advance_stage(current_nav).reason,
                              current_nav)
            /\ UNCHANGED stage_pc
    /\ UNCHANGED <<current_stage, stage_start_date, stage_start_nav,
                   transition_log, observed>>
    /\ UnchangedBySteps

\* rollback_stage up to the first assignment
BeginRollback ==
    /\ stage_pc.at = "idle"
    /\ Len(transition_log) < MaxLog
    /\ IF current_stage > 0
       THEN /\ stage_pc' = [at |-> "pointer", op |-> "rollback",
                            current_nav |-> 0, before |-> StageTriple]
            /\ UNCHANGED ctm_ret
       ELSE /\ ctm_ret' = Ret("rollback_stage", FALSE, "first", 0)
            /\ UNCHANGED stage_pc
    /\ UNCHANGED <<current_stage, stage_start_date, stage_start_nav,
                   transition_log, observed>>
    /\ UnchangedBySteps

\* self.current_stage += 1, or -= 1
StepPointer ==
    /\ stage_pc.at = "pointer"
    /\ current_stage' = IF stage_pc.op = "advance" THEN current_stage + 1
                        ELSE current_stage - 1
    /\ stage_pc' = [stage_pc EXCEPT !.at = "clock"]
    /\ UNCHANGED <<stage_start_date, stage_start_nav, transition_log,
                   ctm_ret, observed>>
    /\ UnchangedBySteps

\* self.stage_start_date = datetime.now()
StepClock ==
    /\ stage_pc.at = "clock"
    /\ stage_start_date' = now
    /\ stage_pc' = [stage_pc EXCEPT !.at = IF stage_pc.op = "advance"
                                           THEN "baseline" ELSE "log"]
    /\ UNCHANGED <<current_stage, stage_start_nav, transition_log,
                   ctm_ret, observed>>
    /\ UnchangedBySteps

\* self.stage_start_nav = current_nav
StepBaseline ==
    /\ stage_pc.at = "baseline"
    /\ stage_start_nav' = stage_pc.current_nav
    /\ stage_pc' = [stage_pc EXCEPT !.at = "log"]
    /\ UNCHANGED <<current_stage, stage_start_date, transition_log,
                   ctm_ret, observed>>
    /\ UnchangedBySteps

\* self._log_transition(...) and the return
StepLog ==
    /\ stage_pc.at = "log"
    /\ transition_log' =
          log_transition(IF stage_pc.op = "advance" THEN "ADVANCE"
                         ELSE "ROLLBACK", current_stage)
    /\ ctm_ret' = IF stage_pc.op = "advance"
                  THEN Ret("advance_stage", TRUE, "advanced",
                           stage_pc.current_nav)
                  ELSE Ret("rollback_stage", TRUE, "rolled_back", 0)
    /\ stage_pc' = IdleStage
    /\ UNCHANGED <<current_stage, stage_start_date, stage_start_nav,
                   observed>>
    /\ UnchangedBySteps

\* what a reader takes from the manager: the triple it sees, the triple
\* before the stage change under way and the triple after it
Observation ==
    [triple |-> StageTriple,
     old |-> IF stage_pc.at = "idle" THEN StageTriple ELSE stage_pc.before,
     new |-> ProjectedTriple]

\* a reader that runs in the middle of advance_stage and rollback_stage
\* too, as a preemptive thread would
Read_Preemptive ==
    /\ Len(observed) < MaxReads
    /\ observed' = Append(observed, Observation)
    /\ UNCHANGED <<current_stage, stage_start_date, stage_start_nav,
                   transition_log, ctm_ret, stage_pc>>
    /\ UnchangedBySteps

\* another callback of the event loop reads the stage (can_advance_stage,
\* get_days_in_stage, the status summary): the loop runs it only when no
\* other callback is running
Read ==
    /\ stage_pc.at = "idle"
    /\ Len(observed) < MaxReads
    /\ observed' = Append(observed, Observation)
    /\ UNCHANGED <<current_stage, stage_start_date, stage_start_nav,
                   transition_log, ctm_ret, stage_pc>>
    /\ UnchangedBySteps

----------------------------------------------------------------------------
\* PaperTradingEngine and the PerformanceMonitor of its portfolio.
\* Time is counted in seconds, money in thousands of dollars.

PaperSymbols == {"SPY"}

\* constructor defaults: PaperTradingEngine(initial_capital=100000.0,
\* commission_rate=0.001), SlippageConfig(), DelayConfig()
initial_capital == Rat(100, 1)
commission_rate == Rat(1, 1000)
base_slippage_bps == 5
volatility_multiplier == Rat(1, 10)
size_impact_threshold == Rat(10, 1)
size_impact_bps_per_10k == 2
market_order_delay == 60
limit_order_delay == 300
twap_interval_minutes == 15
min_delay_seconds == 60
default_volatility == Rat(1, 5)

\* dict.get(key, default), dict[key] = value, dict.pop(key, None)
DictGet(dict, key, default) ==
    IF key \in DOMAIN dict THEN dict[key] ELSE default

DictSet(dict, key, value) ==
    [k \in DOMAIN dict \cup {key} |-> IF k = key THEN value ELSE dict[k]]

DictPop(dict, key) == [k \in DOMAIN dict \ {key} |-> dict[k]]

\* truth value of an Optional[float]: neither None nor 0.0
Truthy(opt) == opt # <<>> /\ opt[1].n # 0

PaperOrder(id, in, slippage, due, submitted) ==
    [order_id |-> id, symbol |-> in.symbol, side |-> in.side,
     quantity |-> in.quantity, order_type |-> in.order_type,
     limit_price |-> in.limit_price, expected_slippage |-> slippage,
     expected_execution_time |-> due, status |-> "PENDING",
     submitted_time |-> submitted]

PaperExecutionResult(order, fill_quantity, fill_price, slippage, status, fee) ==
    [order_id |-> order.order_id, symbol |-> order.symbol,
     side |-> order.side, requested_quantity |-> order.quantity,
     fill_quantity |-> fill_quantity, fill_price |-> fill_price,
     slippage_actual |-> slippage, status |-> status,
     commission |-> fee]

\* arguments of submit_order
PaperOrderInputs ==
    {[symbol |-> "SPY", side |-> "BUY", quantity |-> Rat(10, 1),
      order_type |-> "MARKET", limit_price |-> <<>>],
     [symbol |-> "SPY", side |-> "SELL", quantity |-> Rat(10, 1),
      order_type |-> "MARKET", limit_price |-> <<>>],
     [symbol |-> "SPY", side |-> "BUY", quantity |-> Rat(10, 1),
      order_type |-> "LIMIT", limit_price |-> <<Rat(2, 1)>>],
     [symbol |-> "SPY", side |-> "BUY", quantity |-> Rat(10, 1),
      order_type |-> "LIMIT", limit_price |-> <<>>],
     [symbol |-> "SPY", side |-> "SELL", quantity |-> Rat(10, 1),
      order_type |-> "TWAP", limit_price |-> <<>>]}

\* a sell of 125,005 shares, 250 million dollars at the cached price
OversizeOrderInputs ==
    {[symbol |-> "SPY", side |-> "SELL", quantity |-> Rat(125005, 1),
      order_type |-> "MARKET", limit_price |-> <<>>]}

\* prices set_price puts into the cache, price maps handed to
\* update_portfolio_nav and record_day, steps of the clock
CachePrices == {Rat(2, 1)}
PriceMaps ==
    {<<>>} \cup {[s \in PaperSymbols |-> Rat(p, 1)] : p \in {3}}
PaperTicks == {300}
CacheVolatilities == {Rat(1, 2)}

get_current_price(symbol) == DictGet(price_cache, symbol, Zero)

get_current_volatility(symbol) ==
    DictGet(volatility_cache, symbol, default_volatility)

\* a slippage model without the size term
_calculate_slippage_NoSizeImpact(symbol, quantity, estimated_price) ==
    RAdd(Rat(base_slippage_bps, 10000),
         RMul(get_current_volatility(symbol), volatility_multiplier))

_calculate_slippage(symbol, quantity, estimated_price) ==
    LET base == Rat(base_slippage_bps, 10000)
        vol_impact == RMul(get_current_volatility(symbol),
                           volatility_multiplier)
        product == RMul(quantity, estimated_price)
        order_value == IF product.n < 0 THEN RNeg(product) ELSE product
        \* (excess / 10000) * bps_per_10k / 10000, excess in dollars
        size_impact ==
            IF RLt(size_impact_threshold, order_value)
            THEN RMul(RSub(order_value, size_impact_threshold),
                      Rat(size_impact_bps_per_10k * 1000, 10000 * 10000))
            ELSE Zero
    IN RAdd(RAdd(base, vol_impact), size_impact)

_calculate_delay(order_type) ==
    IF order_type = "MARKET" THEN market_order_delay
    ELSE IF order_type = "LIMIT" THEN limit_order_delay
    ELSE IF order_type = "TWAP" THEN twap_interval_minutes * 60
    ELSE min_delay_seconds

\* the checks at the top of submit_order that raise ValueError
SubmitRaises(in) ==
    \/ in.side \notin {"BUY", "SELL"}
    \/ in.order_type \notin {"MARKET", "LIMIT", "TWAP"}
    \/ in.order_type = "LIMIT" /\ in.limit_price = <<>>

\* submit_order, in runs of at most limit calls
SubmitOrderUpTo(in, limit) ==
    /\ paper_order_counter < limit
    /\ IF SubmitRaises(in)
       THEN UNCHANGED <<paper_order_counter, pending_orders>>
       ELSE LET current_price ==
                    IF Truthy(in.limit_price) THEN in.limit_price[1]
                    ELSE get_current_price(in.symbol)
                order == PaperOrder(paper_order_counter + 1, in,
                            _calculate_slippage(in.symbol, in.quantity,
                                                current_price),
                            paper_now + _calculate_delay(in.order_type),
                            paper_now)
            IN /\ paper_order_counter' = paper_order_counter + 1
               /\ pending_orders' =
                     DictSet(pending_orders, order.order_id, order)
    /\ UNCHANGED <<portfolio, paper_executed, price_cache, paper_now,
                   fills_applied, nav_history, returns_history,
                   monitor_alerts,
                   ic_history, volatility_cache>>
    /\ UNCHANGED <<omsVars, ctmVars, alerts, splitVars, gateVars, liveVars>>

PaperSubmitOrder(in) == SubmitOrderUpTo(in, MaxPaperOrders)

\* _execute_single_order once fill price and fill quantity are known:
\* commission, the portfolio update and the result
FilledOrder(pf, order, fill_price, fill_quantity) ==
    LET held == DictGet(pf.positions, order.symbol, Zero)
        gross == RMul(fill_quantity, fill_price)
        commission == RMul(gross, commission_rate)
        new_position == IF order.side = "BUY" THEN RAdd(held, fill_quantity)
                        ELSE RSub(held, fill_quantity)
        current_cost == RMul(DictGet(pf.cost_basis, order.symbol, Zero), held)
        bought ==
            [pf EXCEPT
               !.cash = RSub(pf.cash, RAdd(gross, commission)),
               !.positions = DictSet(pf.positions, order.symbol,
                                     new_position),
               !.cost_basis = DictSet(pf.cost_basis, order.symbol,
                   IF RLt(Zero, new_position)
                   THEN RDiv(RAdd(current_cost, gross), new_position)
                   ELSE Zero)]
        sold ==
            [pf EXCEPT
               !.cash = RAdd(pf.cash, RSub(gross, commission)),
               !.realized_pnl = RAdd(pf.realized_pnl,
                   RMul(RSub(fill_price,
                             DictGet(pf.cost_basis, order.symbol, Zero)),
                        fill_quantity)),
               !.positions = IF RLe(new_position, Zero)
                             THEN DictPop(pf.positions, order.symbol)
                             ELSE DictSet(pf.positions, order.symbol,
                                          new_position),
               !.cost_basis = IF RLe(new_position, Zero)
                              THEN DictPop(pf.cost_basis, order.symbol)
                              ELSE pf.cost_basis]
    IN [result |-> PaperExecutionResult(order, fill_quantity, fill_price,
                        order.expected_slippage,
                        IF fill_quantity = order.quantity
                        THEN "FILLED" ELSE "PARTIAL",
                        commission),
        portfolio |-> IF order.side = "BUY" THEN bought ELSE sold,
        applied |-> TRUE]

\* _execute_single_order once the fill price is known: a buy is cut to
\* what the cash pays for, a sell to the position held
PricedOrder(pf, order, fill_price) ==
    LET unit_cost == RMul(fill_price, RAdd(One, commission_rate))
        held == DictGet(pf.positions, order.symbol, Zero)
    IN FilledOrder(pf, order, fill_price,
          IF order.side = "BUY"
          THEN IF RLt(pf.cash, RMul(order.quantity, unit_cost))
               THEN RDiv(pf.cash, unit_cost)
               ELSE order.quantity
          ELSE RMin(order.quantity, held))

\* an _execute_single_order that takes the slippage off a buy's price
_execute_single_order_BuyBelow(pf, order) ==
    LET cached == get_current_price(order.symbol)
        current_price == IF cached.n = 0 /\ Truthy(order.limit_price)
                         THEN order.limit_price[1] ELSE cached
    IN IF cached.n = 0 /\ ~Truthy(order.limit_price)
       THEN [result |-> PaperExecutionResult(order, Zero, Zero, Zero,
                                             "REJECTED", Zero),
             portfolio |-> pf, applied |-> FALSE]
       ELSE PricedOrder(pf, order,
               RMul(current_price, RSub(One, order.expected_slippage)))

\* _execute_single_order on portfolio pf: the result, the portfolio after it
\* and whether a fill was applied to the portfolio
_execute_single_order(pf, order) ==
    LET cached == get_current_price(order.symbol)
        current_price == IF cached.n = 0 /\ Truthy(order.limit_price)
                         THEN order.limit_price[1] ELSE cached
    IN IF cached.n = 0 /\ ~Truthy(order.limit_price)
       THEN [result |-> PaperExecutionResult(order, Zero, Zero, Zero,
                                             "REJECTED", Zero),
             portfolio |-> pf, applied |-> FALSE]
       ELSE PricedOrder(pf, order,
               IF order.side = "BUY"
               THEN RMul(current_price, RAdd(One, order.expected_slippage))
               ELSE RMul(current_price, RSub(One, order.expected_slippage)))

\* the ids of a dict in insertion order (ids grow with insertion)
RECURSIVE InOrder(_)
InOrder(ids) ==
    IF ids = {} THEN <<>>
    ELSE LET first == CHOOSE i \in ids : \A j \in ids : i <= j
         IN <<first>> \o InOrder(ids \ {first})

\* the loop over the chosen pending orders, one _execute_single_order each
RECURSIVE ExecuteEach(_, _)
ExecuteEach(ids, pf) ==
    IF ids = <<>> THEN [portfolio |-> pf, results |-> <<>>, applied |-> {}]
    ELSE LET one == _execute_single_order(pf, pending_orders[Head(ids)])
             rest == ExecuteEach(Tail(ids), one.portfolio)
         IN [portfolio |-> rest.portfolio,
             results |-> <<one.result>> \o rest.results,
             applied |-> (IF one.applied THEN {Head(ids)} ELSE {})
                            \cup rest.applied]

\* the orders named by ids are executed; keep tells whether they stay pending
ExecuteOrders(ids, keep) ==
    LET run == ExecuteEach(InOrder(ids), portfolio)
    IN /\ portfolio' = run.portfolio
       /\ paper_executed' = paper_executed \o run.results
       /\ fills_applied' =
             [i \in DOMAIN fills_applied |->
                 fills_applied[i] + (IF i \in run.applied THEN 1 ELSE 0)]
       /\ pending_orders' =
             IF keep THEN pending_orders
             ELSE [i \in DOMAIN pending_orders \ ids |-> pending_orders[i]]
       /\ UNCHANGED <<paper_order_counter, price_cache, paper_now,
                      nav_history, returns_history, monitor_alerts,
                   ic_history, volatility_cache>>
       /\ UNCHANGED <<omsVars, ctmVars, alerts, splitVars, gateVars, liveVars>>

DueOrders ==
    {i \in DOMAIN pending_orders :
        pending_orders[i].expected_execution_time <= paper_now}

\* an execute_pending_orders that leaves the executed orders pending
ExecutePendingOrders_KeepPending ==
    ExecuteOrders(DueOrders, TRUE)

ExecutePendingOrders ==
    ExecuteOrders(DueOrders, FALSE)

\* a force_execute_all_pending that waits for the due time
ForceExecuteAllPending_DueOnly ==
    ExecuteOrders(DueOrders, FALSE)

ForceExecuteAllPending ==
    ExecuteOrders(DOMAIN pending_orders, FALSE)

CancelOrder(order_id) ==
    /\ pending_orders' =
          [i \in DOMAIN pending_orders \ {order_id} |-> pending_orders[i]]
    /\ UNCHANGED <<portfolio, paper_executed, paper_order_counter,
                   price_cache, paper_now, fills_applied, nav_history,
                   returns_history, monitor_alerts,
                   ic_history, volatility_cache>>
    /\ UNCHANGED <<omsVars, ctmVars, alerts, splitVars, gateVars, liveVars>>

SetVolatility(symbol, volatility) ==
    /\ volatility_cache' = DictSet(volatility_cache, symbol, volatility)
    /\ UNCHANGED <<portfolio, pending_orders, paper_executed,
                   paper_order_counter, price_cache, paper_now,
                   fills_applied, nav_history, returns_history,
                   monitor_alerts, ic_history>>
    /\ UNCHANGED <<omsVars, ctmVars, alerts, splitVars, gateVars, liveVars>>

SetPrice(symbol, price) ==
    /\ price_cache' = DictSet(price_cache, symbol, price)
    /\ UNCHANGED <<portfolio, pending_orders, paper_executed,
                   paper_order_counter, paper_now, fills_applied,
                   nav_history, returns_history, monitor_alerts,
                   ic_history, volatility_cache>>
    /\ UNCHANGED <<omsVars, ctmVars, alerts, splitVars, gateVars, liveVars>>

RECURSIVE SumOver(_, _, _)
\* sum of quantity * price_of(symbol) over the positions
SumOver(symbols, positions, price_of) ==
    IF symbols = {} THEN Zero
    ELSE LET s == CHOOSE s \in symbols : TRUE
         IN RAdd(RMul(positions[s], price_of[s]),
                 SumOver(symbols \ {s}, positions, price_of))

\* PaperPortfolio.calculate_drawdown, for a portfolio with nav and peak_nav
calculate_drawdown(pf) ==
    IF pf.peak_nav.n = 0 THEN Zero
    ELSE RDiv(RSub(pf.peak_nav, pf.nav), pf.peak_nav)

\* PaperPortfolio.update_peak_nav
update_peak_nav(pf) ==
    IF RLt(pf.peak_nav, pf.nav) THEN [pf EXCEPT !.peak_nav = pf.nav] ELSE pf

UpdatePortfolioNav(prices) ==
    LET held == DOMAIN portfolio.positions
        price_of == [s \in held |->
                        DictGet(prices, s, get_current_price(s))]
        weight_price == [s \in held |-> DictGet(prices, s, Zero)]
        position_value == SumOver(held, portfolio.positions, price_of)
        cost_of == [s \in held |-> DictGet(portfolio.cost_basis, s, Zero)]
        cost_value == SumOver(held, portfolio.positions, cost_of)
        nav == RAdd(portfolio.cash, position_value)
        valued == update_peak_nav(
                     [portfolio EXCEPT
                        !.unrealized_pnl = RSub(position_value, cost_value),
                        !.nav = nav])
    IN /\ portfolio' =
             IF RLt(Zero, nav)
             THEN [valued EXCEPT !.weights =
                     [k \in held \cup {"CASH"} |->
                        IF k = "CASH" THEN RDiv(portfolio.cash, nav)
                        ELSE RDiv(RMul(portfolio.positions[k],
                                       weight_price[k]), nav)]]
             ELSE valued
       /\ UNCHANGED <<pending_orders, paper_executed, paper_order_counter,
                      price_cache, paper_now, fills_applied, nav_history,
                      returns_history, monitor_alerts,
                   ic_history, volatility_cache>>
       /\ UNCHANGED <<omsVars, ctmVars, alerts, splitVars, gateVars, liveVars>>

\* PerformanceMonitor._calculate_nav: a missing price counts as 0
_calculate_nav(current_prices) ==
    LET held == DOMAIN portfolio.positions
        price_of == [s \in held |-> DictGet(current_prices, s, Zero)]
    IN RAdd(portfolio.cash, SumOver(held, portfolio.positions, price_of))

\* A pandas Series of floats is kept as its runs of equal entries: a
\* sequence of [v |-> value, c |-> number of entries in a row], adjacent
\* runs having different values.
RECURSIVE SeriesLen(_)
SeriesLen(series) ==
    IF series = <<>> THEN 0 ELSE series[1].c + SeriesLen(Tail(series))

\* pd.concat of a series and count more entries x
AppendRun(series, x, count) ==
    IF count = 0 THEN series
    ELSE IF series # <<>> /\ series[Len(series)].v = x
    THEN [series EXCEPT ![Len(series)].c = @ + count]
    ELSE Append(series, [v |-> x, c |-> count])

\* series.iloc[-1]
SeriesLast(series) == series[Len(series)].v

\* series.tail(window), for a series at least that long
RECURSIVE SeriesTail(_, _)
SeriesTail(series, window) ==
    LET last == series[Len(series)]
    IN IF window = 0 THEN <<>>
       ELSE IF last.c >= window THEN <<[v |-> last.v, c |-> window]>>
       ELSE Append(SeriesTail(SubSeq(series, 1, Len(series) - 1),
                              window - last.c), last)

\* series.sum()
RECURSIVE SeriesSum(_)
SeriesSum(series) ==
    IF series = <<>> THEN Zero
    ELSE RAdd(RMul(series[1].v, Rat(series[1].c, 1)),
              SeriesSum(Tail(series)))

\* (series ** 2).sum()
RECURSIVE SeriesSumSquares(_)
SeriesSumSquares(series) ==
    IF series = <<>> THEN Zero
    ELSE RAdd(RMul(RMul(series[1].v, series[1].v), Rat(series[1].c, 1)),
              SeriesSumSquares(Tail(series)))

\* one entry of the drawdown series, (peak - nav) / peak: "nan" for 0/0,
\* "inf" for x/0 with x > 0
DrawdownAt(peak, nav) ==
    IF peak.n # 0
    THEN [kind |-> "num", v |-> RDiv(RSub(peak, nav), peak)]
    ELSE IF nav.n = 0 THEN [kind |-> "nan", v |-> Zero]
    ELSE [kind |-> "inf", v |-> Zero]

\* Series.max() of the entries seen so far and one more: NaN entries are
\* skipped, the result is NaN when there is nothing else
SeriesMax(worst, dd) ==
    IF dd.kind = "nan" THEN worst
    ELSE IF worst.kind = "nan" THEN dd
    ELSE IF worst.kind = "inf" \/ dd.kind = "inf"
    THEN [kind |-> "inf", v |-> Zero]
    ELSE IF RLt(worst.v, dd.v) THEN dd ELSE worst

\* nav_series.expanding().max() and the largest drawdown from run k on;
\* peak and worst are those of the entries before run k
RECURSIVE ExpandingMax(_, _, _, _)
ExpandingMax(history, k, peak, worst) ==
    IF k > Len(history) THEN [peak |-> peak, worst |-> worst]
    ELSE LET nav == history[k].v
             top == IF k = 1 \/ RLt(peak, nav) THEN nav ELSE peak
         IN ExpandingMax(history, k + 1, top,
                         SeriesMax(worst, DrawdownAt(top, nav)))

\* calculate_max_drawdown: the largest entry of the drawdown series, 0.0 for
\* an empty history
calculate_max_drawdown(history) ==
    IF history = <<>> THEN [kind |-> "num", v |-> Zero]
    ELSE ExpandingMax(history, 1, Zero, [kind |-> "nan", v |-> Zero]).worst

\* A Sharpe ratio is mean * 252 / (std * sqrt(252)); it is kept as its sign
\* and its square, 252 * mean^2 / variance, which are rational.
ZeroSharpe == [sign |-> 0, sq |-> Zero]

\* calculate_rolling_sharpe over a returns history: 0.0 when the history is
\* shorter than the window or the window's standard deviation (ddof = 1) is 0
calculate_rolling_sharpe(returns, window) ==
    IF SeriesLen(returns) < window THEN ZeroSharpe
    ELSE LET recent_returns == SeriesTail(returns, window)
             total == SeriesSum(recent_returns)
             mean_return == RDiv(total, Rat(window, 1))
             variance == RDiv(RSub(SeriesSumSquares(recent_returns),
                                   RMul(total, mean_return)),
                              Rat(window - 1, 1))
         IN IF variance.n = 0 THEN ZeroSharpe
            ELSE [sign |-> IF mean_return.n > 0 THEN 1
                           ELSE IF mean_return.n < 0 THEN -1 ELSE 0,
                  sq |-> RDiv(RMul(Rat(252, 1),
                                   RMul(mean_return, mean_return)),
                              variance)]

\* sharpe > threshold, for a threshold that is not negative
SharpeAbove(sharpe, threshold) ==
    sharpe.sign = 1 /\ RLt(RMul(threshold, threshold), sharpe.sq)

\* max_dd > threshold
Exceeds(max_dd, threshold) ==
    \/ max_dd.kind = "inf"
    \/ max_dd.kind = "num" /\ RLt(threshold, max_dd.v)

max_drawdown_critical == Rat(15, 100)
max_drawdown_warning == Rat(10, 100)

min_sharpe_threshold == Rat(1, 2)

\* the alerts _check_alerts adds for a day, recorded being the length of the
\* returns history
_check_alerts(daily_return, max_dd, sharpe, recorded) ==
    (IF Exceeds(max_dd, max_drawdown_critical) THEN <<"CRITICAL">>
     ELSE IF Exceeds(max_dd, max_drawdown_warning) THEN <<"WARNING">>
     ELSE <<>>)
    \o (IF /\ ~(sharpe.sign = 1 /\
                RLe(RMul(min_sharpe_threshold, min_sharpe_threshold),
                    sharpe.sq))
           /\ recorded >= 20
        THEN <<"WARNING">> ELSE <<>>)
    \o (IF RLt(daily_return, Rat(-3, 100)) THEN <<"WARNING">> ELSE <<>>)

RecordDay(current_prices) ==
    /\ SeriesLen(nav_history) < MaxDays
    /\ LET nav == _calculate_nav(current_prices)
           prev_nav == IF SeriesLen(nav_history) > 0
                       THEN SeriesLast(nav_history)
                       ELSE portfolio.initial_capital
           daily_return == IF RLt(Zero, prev_nav)
                           THEN RDiv(RSub(nav, prev_nav), prev_nav)
                           ELSE Zero
       IN /\ nav_history' = AppendRun(nav_history, nav, 1)
          /\ returns_history' = AppendRun(returns_history, daily_return, 1)
          /\ portfolio' =
                [portfolio EXCEPT
                   !.peak_nav = IF RLt(portfolio.peak_nav, nav) THEN nav
                                ELSE portfolio.peak_nav,
                   !.nav = nav,
                   !.trading_days = SeriesLen(nav_history) + 1]
          /\ monitor_alerts' = monitor_alerts \o
                _check_alerts(daily_return,
                              calculate_max_drawdown(nav_history'),
                              calculate_rolling_sharpe(returns_history', 20),
                              SeriesLen(returns_history'))
    /\ UNCHANGED <<pending_orders, paper_executed, paper_order_counter,
                   price_cache, paper_now, fills_applied, ic_history,
                   volatility_cache>>
    /\ UNCHANGED <<omsVars, ctmVars, alerts, splitVars, gateVars, liveVars>>

\* the rolling IC track_ic computes is a correlation of the predictions
\* with the actual returns and is taken as given: NaN or a number
ICInputs ==
    {[kind |-> "nan", v |-> Zero],
     [kind |-> "num", v |-> Rat(2, 100)],
     [kind |-> "num", v |-> Rat(3, 100)]}

ic_critical_threshold == Zero
ic_warning_threshold == Rat(2, 100)

\* track_ic: the IC point is recorded and checked against the thresholds
TrackIC(rolling_ic) ==
    /\ Len(ic_history) < MaxICPoints
    /\ ic_history' = Append(ic_history, rolling_ic)
    /\ monitor_alerts' = monitor_alerts \o
          (IF rolling_ic.kind = "nan" THEN <<>>
           ELSE IF RLt(rolling_ic.v, ic_critical_threshold)
           THEN <<"CRITICAL">>
           ELSE IF RLt(rolling_ic.v, ic_warning_threshold)
           THEN <<"WARNING">>
           ELSE <<>>)
    /\ UNCHANGED <<portfolio, pending_orders, paper_executed,
                   paper_order_counter, price_cache, paper_now,
                   fills_applied, nav_history, returns_history,
                   volatility_cache>>
    /\ UNCHANGED <<omsVars, ctmVars, alerts, splitVars, gateVars, liveVars>>

\* get_ic_trend(days): <<>> when the dict has no "mean_ic" key (no IC
\* recorded, or none valid), else <<current_ic>>, the last valid value of
\* the last days points
get_ic_trend(days) ==
    LET recent_ic == IF Len(ic_history) >= days
                     THEN SubSeq(ic_history, Len(ic_history) - days + 1,
                                 Len(ic_history))
                     ELSE ic_history
        ic_values == SelectSeq(recent_ic, LAMBDA p : p.kind # "nan")
    IN IF ic_values = <<>> THEN <<>>
       ELSE <<ic_values[Len(ic_values)].v>>

\* datetime.now() moves on
PaperTick(d) ==
    /\ paper_now + d <= MaxPaperNow
    /\ paper_now' = paper_now + d
    /\ UNCHANGED <<portfolio, pending_orders, paper_executed,
                   paper_order_counter, price_cache, fills_applied,
                   nav_history, returns_history, monitor_alerts,
                   ic_history, volatility_cache>>
    /\ UNCHANGED <<omsVars, ctmVars, alerts, splitVars, gateVars, liveVars>>

----------------------------------------------------------------------------
\* GateValidationSystem (paper_trading/gates.py)

\* Phase12Gates
min_trading_days == 63
min_sharpe == Rat(1, 2)
max_drawdown == Rat(15, 100)
min_availability == Rat(999, 1000)
required_risk_levels == {1, 2, 3, 4}
min_rolling_ic_Raised == Rat(3, 100)
min_rolling_ic == Rat(2, 100)

\* Phase3Gates
phase3_min_trading_days == 63
phase3_max_drawdown == Rat(15, 100)
min_ic_sustained == Rat(2, 100)

\* level arguments of record_risk_level_trigger
RiskLevelInputs == 0..5

\* (uptime_seconds, total_seconds) arguments of record_uptime
UptimeInputs == {<<999, 1000>>, <<998, 1000>>}

\* float comparison of a drawdown reading: NaN compares false
DrawdownBelow(current_dd, limit) ==
    current_dd.kind = "num" /\ RLt(current_dd.v, limit)

\* all(r.get("passed", True) for r in results.values())
all_passed_Any(results) ==
    \E g \in DOMAIN results :
        IF "passed" \in DOMAIN results[g] THEN results[g].passed ELSE TRUE

all_passed(results) ==
    \A g \in DOMAIN results :
        IF "passed" \in DOMAIN results[g] THEN results[g].passed ELSE TRUE

GateValidationResult(phase, results, warnings) ==
    [phase |-> phase, gates |-> results,
     overall_passed |-> all_passed(results), warnings |-> warnings]

\* the rolling Sharpe validate_phase_1_2_gates uses and its window
CurrentSharpe(sharpe_252, sharpe_60, sharpe_20) ==
    IF sharpe_252 # ZeroSharpe THEN [sharpe |-> sharpe_252, window |-> 252]
    ELSE IF sharpe_60 # ZeroSharpe THEN [sharpe |-> sharpe_60, window |-> 60]
    ELSE [sharpe |-> sharpe_20, window |-> 20]

\* the gates dict of validate_phase_1_2_gates
Phase12Results(current, current_dd, ic_trend) ==
    LET availability == IF total_seconds > 0
                        THEN Rat(system_uptime_seconds, total_seconds)
                        ELSE One
        base ==
            ("min_trading_days" :>
                [passed |-> trading_days_count >= min_trading_days]) @@
            ("sharpe_ratio" :>
                [window_days |-> current.window,
                 passed |-> SharpeAbove(current.sharpe, min_sharpe)]) @@
            ("max_drawdown" :>
                [passed |-> DrawdownBelow(current_dd, max_drawdown)]) @@
            ("system_availability" :>
                [passed |-> RLe(min_availability, availability)]) @@
            ("risk_level_coverage" :>
                [passed |-> required_risk_levels \subseteq
                                risk_levels_triggered])
    IN IF ic_trend # <<>>
       THEN base @@ ("rolling_ic" :>
                [actual_value |-> ic_trend[1],
                 passed |-> RLt(min_rolling_ic, ic_trend[1])])
       ELSE base

\* the gates validate_phase_1_2_gates appends a warning for, in order
Phase12Warnings(results, current) ==
    LET warned(g) ==
            /\ g \in DOMAIN results
            /\ ~results[g].passed
            /\ g = "sharpe_ratio" => current.sharpe # ZeroSharpe
    IN SelectSeq(<<"min_trading_days", "sharpe_ratio", "max_drawdown",
                   "system_availability", "risk_level_coverage",
                   "rolling_ic">>, warned)

\* the gates dict of validate_phase_3_gates
Phase3Results(ml_sharpe, traditional_sharpe, current_dd, ic_trend) ==
    LET current_ic == IF ic_trend # <<>> THEN ic_trend[1] ELSE Zero
    IN ("ml_outperformance" :>
            [passed |-> RLt(traditional_sharpe, ml_sharpe)]) @@
       ("min_trading_days" :>
            [passed |-> trading_days_count >= phase3_min_trading_days]) @@
       ("max_drawdown" :>
            [passed |-> DrawdownBelow(current_dd, phase3_max_drawdown)]) @@
       ("sustained_ic" :>
            [passed |-> RLt(min_ic_sustained, current_ic)])

UnchangedByGates ==
    UNCHANGED <<omsVars, ctmVars, alerts, splitVars, paperVars, liveVars>>

RecordTradingDay ==
    /\ trading_days_count < MaxTradingDays
    /\ trading_days_count' = trading_days_count + 1
    /\ UNCHANGED <<risk_levels_triggered, system_uptime_seconds,
                   total_seconds, gate_history, gate_returned>>
    /\ UnchangedByGates

RecordRiskLevelTrigger(level) ==
    /\ risk_levels_triggered' =
          IF 1 <= level /\ level <= 4
          THEN risk_levels_triggered \cup {level}
          ELSE risk_levels_triggered
    /\ UNCHANGED <<trading_days_count, system_uptime_seconds,
                   total_seconds, gate_history, gate_returned>>
    /\ UnchangedByGates

RecordUptime(uptime_seconds, total) ==
    /\ total_seconds + total <= MaxTotalSeconds
    /\ system_uptime_seconds' = system_uptime_seconds + uptime_seconds
    /\ total_seconds' = total_seconds + total
    /\ UNCHANGED <<trading_days_count, risk_levels_triggered,
                   gate_history, gate_returned>>
    /\ UnchangedByGates

ValidatePhase12Gates ==
    /\ Len(gate_returned) < MaxGateChecks
    /\ LET current ==
              CurrentSharpe(calculate_rolling_sharpe(returns_history, 252),
                            calculate_rolling_sharpe(returns_history, 60),
                            calculate_rolling_sharpe(returns_history, 20))
           results == Phase12Results(current,
                          calculate_max_drawdown(nav_history),
                          get_ic_trend(20))
           result == GateValidationResult("Phase 1+2", results,
                          Phase12Warnings(results, current))
       IN /\ gate_history' = Append(gate_history, result)
          /\ gate_returned' = Append(gate_returned, result)
    /\ UNCHANGED <<trading_days_count, risk_levels_triggered,
                   system_uptime_seconds, total_seconds>>
    /\ UnchangedByGates

ValidatePhase3Gates(ml_sharpe, traditional_sharpe) ==
    /\ Len(gate_returned) < MaxGateChecks
    /\ LET results == Phase3Results(ml_sharpe, traditional_sharpe,
                          calculate_max_drawdown(nav_history),
                          get_ic_trend(20))
       IN gate_returned' = Append(gate_returned,
              GateValidationResult("Phase 3 (ML)", results,
                  IF results["ml_outperformance"].passed THEN <<>>
                  ELSE <<"ml_outperformance">>))
    /\ UNCHANGED <<trading_days_count, risk_levels_triggered,
                   system_uptime_seconds, total_seconds, gate_history>>
    /\ UnchangedByGates

----------------------------------------------------------------------------
\* AlpacaAdapter and BinanceAdapter (live_trading/brokers.py)

AdapterClasses == {"alpaca", "binance"}

\* __init__: the class, demo_mode, whether api_key is a non-empty string;
\* not connected and without a session
NewAdapter(class, demo_mode, has_api_key) ==
    [class |-> class, demo_mode |-> demo_mode, api_key |-> has_api_key,
     connected |-> FALSE, session |-> "None"]

\* what the venue does with a request: the connection fails, it answers
\* 401 with a JSON error, it answers another error status with a JSON
\* error, it answers 200 with a body that is not JSON, it serves the request
VenueReplies == {"unreachable", "unauthorized", "error", "malformed", "ok"}

\* how an operation ended: outcome "returned" with the value, or "raised";
\* venue is what the venue did during the call, session_used whether the
\* operation went through self.session
AdapterReturn(op, outcome, value, venue, session_used) ==
    [op |-> op, outcome |-> outcome, value |-> value, venue |-> venue,
     session_used |-> session_used, demo_mode |-> adapter.demo_mode,
     was_connected |-> adapter.connected]

NoAdapterReturn ==
    [op |-> "none", outcome |-> "returned", value |-> "None",
     venue |-> "ok", session_used |-> FALSE, demo_mode |-> TRUE,
     was_connected |-> FALSE]

\* connect on adapter a: the adapter after it, the value returned and
\* whether a request was made
connect(a, venue) ==
    IF a.connected
    THEN [adapter |-> a, value |-> "True", session_used |-> FALSE]
    ELSE IF a.demo_mode
    THEN [adapter |-> [a EXCEPT !.connected = TRUE], value |-> "True",
          session_used |-> FALSE]
    ELSE LET opened == [a EXCEPT !.session = "ClientSession"]
             \* alpaca: any answer to GET /v2/account counts;
             \* binance: the public ping must answer 200
             reached == IF a.class = "alpaca" THEN venue # "unreachable"
                        ELSE venue \notin {"unreachable", "error"}
         IN IF reached
            THEN [adapter |-> [opened EXCEPT !.connected = TRUE],
                  value |-> "True", session_used |-> TRUE]
            ELSE [adapter |-> opened, value |-> "False",
                  session_used |-> TRUE]

\* the `if not self._connected: await self.connect()` that opens an
\* operation
EnsureConnected(a, venue) ==
    IF a.connected THEN [adapter |-> a, session_used |-> FALSE]
    ELSE [adapter |-> connect(a, venue).adapter,
          session_used |-> connect(a, venue).session_used]

\* a request through self.session raises: no session object, no
\* connection, or a body resp.json() cannot parse
RequestRaises(a, venue, parsed) ==
    \/ a.session = "None"
    \/ venue = "unreachable"
    \/ parsed /\ venue = "malformed"

AdapterEnds(after, ret) ==
    /\ adapter' = after
    /\ adapter_ret' = ret
    /\ UNCHANGED <<omsVars, ctmVars, alerts, splitVars, paperVars,
                   gateVars, taskVars, stageVars, riskVars>>

AdapterConnect(venue) ==
    LET c == connect(adapter, venue)
    IN AdapterEnds(c.adapter,
          AdapterReturn("connect", "returned", c.value, venue,
                        c.session_used))

AdapterDisconnect ==
    AdapterEnds([adapter EXCEPT !.session = "None", !.connected = FALSE],
       AdapterReturn("disconnect", "returned", "True", "ok",
                     adapter.session # "None"))

AdapterGetAccountInfo(venue) ==
    LET c == EnsureConnected(adapter, venue)
        a == c.adapter
        failed == \/ RequestRaises(a, venue, TRUE)
                  \/ a.class = "binance" /\ venue # "ok"
    IN AdapterEnds(a,
          IF a.demo_mode
          THEN AdapterReturn("get_account_info", "returned", "AccountInfo",
                             venue, c.session_used)
          ELSE IF failed
          THEN AdapterReturn("get_account_info", "raised", "None", venue,
                             TRUE)
          ELSE AdapterReturn("get_account_info", "returned", "AccountInfo",
                             venue, TRUE))

\* the status of the OrderResponse submit_order builds from a parsed reply
SubmittedStatus(class, venue) ==
    IF venue = "ok" THEN "VENUE_STATUS"
    ELSE IF class = "alpaca" THEN "SUBMITTED"
    ELSE "REJECTED"

AdapterSubmitOrder(venue) ==
    LET c == EnsureConnected(adapter, venue)
        a == c.adapter
    IN AdapterEnds(a,
          IF a.demo_mode
          THEN AdapterReturn("submit_order", "returned", "FILLED", venue,
                             c.session_used)
          ELSE IF RequestRaises(a, venue, TRUE)
          THEN AdapterReturn("submit_order", "raised", "None", venue, TRUE)
          ELSE AdapterReturn("submit_order", "returned",
                             SubmittedStatus(a.class, venue), venue, TRUE))

AdapterGetOrderStatus(venue) ==
    LET c == IF adapter.class = "alpaca"
             THEN EnsureConnected(adapter, venue)
             ELSE [adapter |-> adapter, session_used |-> FALSE]
        a == c.adapter
    IN AdapterEnds(a,
          IF ~a.api_key
          THEN AdapterReturn("get_order_status", "returned", "FILLED",
                             venue, c.session_used)
          ELSE IF a.class = "binance"
          THEN AdapterReturn("get_order_status", "returned", "UNKNOWN",
                             venue, FALSE)
          ELSE IF RequestRaises(a, venue, TRUE)
          THEN AdapterReturn("get_order_status", "raised", "None", venue,
                             TRUE)
          ELSE AdapterReturn("get_order_status", "returned",
                             IF venue = "ok" THEN "VENUE_STATUS"
                             ELSE "UNKNOWN", venue, TRUE))

AdapterCancelOrder(venue) ==
    LET c == IF adapter.class = "alpaca"
             THEN EnsureConnected(adapter, venue)
             ELSE [adapter |-> adapter, session_used |-> FALSE]
        a == c.adapter
    IN AdapterEnds(a,
          IF ~a.api_key
          THEN AdapterReturn("cancel_order", "returned", "True", venue,
                             c.session_used)
          ELSE AdapterReturn("cancel_order", "returned",
                             IF RequestRaises(a, venue, FALSE)
                             THEN "False" ELSE "True", venue, TRUE))

----------------------------------------------------------------------------
\* OrderManagementSystem.submit_order run by several coroutines on one event
\* loop, each order going to a live adapter. A coroutine runs without
\* interruption up to its next await; the loop resumes the coroutines that
\* can go on in the order in which they became ready.

LiveBrokers == {"alpaca", "binance"}

WireEvent(kind, task, broker) ==
    [kind |-> kind, task |-> task, broker |-> broker]

\* the position in wire of the event that made a ready coroutine ready
ReadySince(t) ==
    CHOOSE i \in DOMAIN wire :
        /\ wire[i].task = t
        /\ \A j \in DOMAIN wire : wire[j].task = t => j <= i

\* the coroutine the loop resumes next
NextReady(t) ==
    /\ t \in DOMAIN tasks
    /\ tasks[t].pc = "ready"
    /\ \A u \in DOMAIN tasks :
          tasks[u].pc = "ready" => ReadySince(t) <= ReadySince(u)

UnchangedByTasks ==
    UNCHANGED <<omsVars, ctmVars, alerts, splitVars, paperVars, gateVars,
                adapterVars, stageVars, riskVars>>

\* a caller starts submit_order(order) as a task, the order being one that
\* route_order sends to broker
TaskCall(broker) ==
    /\ Len(tasks) < MaxTasks
    /\ tasks' = Append(tasks, [pc |-> "ready", broker |-> broker,
                               attempt |-> 0])
    /\ wire' = Append(wire, WireEvent("call", Len(tasks) + 1, broker))
    /\ UnchangedByTasks

\* the coroutine reaches `await broker.submit_order(order)`: the request
\* goes out and the coroutine is suspended until the reply
TaskRequest(t) ==
    /\ NextReady(t)
    /\ tasks' = [tasks EXCEPT ![t].pc = "awaiting"]
    /\ wire' = Append(wire, WireEvent("request", t, tasks[t].broker))
    /\ UnchangedByTasks

\* the adapter call returns a response, or raises: the coroutine returns,
\* or sleeps before the next attempt when one is left
TaskReply(t, raised) ==
    /\ t \in DOMAIN tasks
    /\ tasks[t].pc = "awaiting"
    /\ tasks' = [tasks EXCEPT ![t].pc =
                    IF raised /\ HasRetryLeft(tasks[t].attempt)
                    THEN "sleeping" ELSE "done"]
    /\ wire' = Append(wire, WireEvent("reply", t, tasks[t].broker))
    /\ UnchangedByTasks

\* asyncio.sleep(delay) is over
TaskWake(t) ==
    /\ t \in DOMAIN tasks
    /\ tasks[t].pc = "sleeping"
    /\ tasks' = [tasks EXCEPT ![t].pc = "ready", ![t].attempt = @ + 1]
    /\ wire' = Append(wire, WireEvent("wake", t, tasks[t].broker))
    /\ UnchangedByTasks

----------------------------------------------------------------------------
\* RiskManager: the portfolio-level risk level. Drawdowns are exact
\* fractions of the peak NAV.

\* RiskManager.LEVELS: level -> drawdown trigger
LEVELS == [level \in 0..4 |->
             [drawdown |-> Rat(<<0, 5, 8, 12, 15>>[level + 1], 100)]]

\* the Portfolio fields the risk manager reads
Portfolio(nav, peak_nav) == [nav |-> nav, peak_nav |-> peak_nav]

\* portfolios a caller can hand over: NAVs above, at and below the peak, on
\* and next to every trigger, and a portfolio that never had a NAV
RiskNavs == {105, 100, 96, 95, 94, 92, 91, 88, 87, 85, 84, 0}
RiskPeaks == {0, 100}

\* Portfolio.calculate_drawdown
Portfolio_calculate_drawdown(pf) ==
    IF pf.peak_nav.n = 0 THEN Zero
    ELSE RDiv(RSub(pf.peak_nav, pf.nav), pf.peak_nav)

\* the loop over sorted(LEVELS.keys(), reverse=True) from level down to 0
RECURSIVE FirstLevelFrom(_, _)
FirstLevelFrom(level, drawdown) ==
    IF level < 0 THEN 0
    ELSE IF RLe(LEVELS[level].drawdown, drawdown) THEN level
    ELSE FirstLevelFrom(level - 1, drawdown)

\* a comparison that needs the drawdown to exceed the trigger
assess_risk_level_Strict(pf) ==
    LET above == {l \in 0..4 :
                    RLt(LEVELS[l].drawdown, Portfolio_calculate_drawdown(pf))}
    IN IF above = {} THEN 0 ELSE CHOOSE l \in above : \A k \in above : k <= l

assess_risk_level(pf) ==
    FirstLevelFrom(4, Portfolio_calculate_drawdown(pf))

UnchangedByRisk ==
    UNCHANGED <<omsVars, ctmVars, alerts, splitVars, paperVars, gateVars,
                adapterVars, taskVars, stageVars>>

\* the caller's portfolio is marked to a new NAV and peak
MarkPortfolio(nav, peak_nav) ==
    /\ risk_portfolio' = Portfolio(Rat(nav, 1), Rat(peak_nav, 1))
    /\ risk_ret' = [op |-> "mark", level |-> 0, drawdown |-> Zero,
                    violations |-> <<>>]
    /\ UNCHANGED current_level
    /\ UnchangedByRisk

AssessRiskLevel ==
    /\ risk_ret' = [op |-> "assess_risk_level",
                    level |-> assess_risk_level(risk_portfolio),
                    drawdown |-> Zero, violations |-> <<>>]
    /\ UNCHANGED <<current_level, risk_portfolio>>
    /\ UnchangedByRisk

\* RiskManager.check: the level is assessed and, when it differs from
\* current_level, recorded there and reported as a violation
Check ==
    LET level == assess_risk_level(risk_portfolio)
    IN /\ current_level' = level
       /\ risk_ret' = [op |-> "check", level |-> level,
                       drawdown |-> Portfolio_calculate_drawdown(risk_portfolio),
                       violations |-> IF level # current_level
                                      THEN <<level>> ELSE <<>>]
       /\ UNCHANGED risk_portfolio
       /\ UnchangedByRisk

----------------------------------------------------------------------------
\* Construction

TotalCapital == 100

InitOMSState ==
    /\ connected = [b \in BrokerNames |-> FALSE]
    /\ order_counter = 0
    /\ order_status = [i \in 1..(MaxOrders + 1) |-> "PENDING"]
    /\ order_log = <<>>
    /\ executed_orders = <<>>
    /\ oms_pc = "idle"
    /\ cur_order = NoOrder
    /\ attempt = 0
    /\ oms_result = NoResult
    /\ venue_accepts = [i \in 1..(MaxOrders + 1) |-> 0]
    /\ call_outcomes = <<>>
    /\ sleeps = <<>>
    /\ log_base = 0

InitCTMState(capital) ==
    /\ total_capital = capital
    /\ current_stage = 0
    /\ stage_start_date = 0
    /\ stage_start_nav = capital
    /\ system_failure_count = 0
    /\ transition_log = <<>>
    /\ now = 0
    /\ ctm_ret = Ret("init", TRUE, "None", 0)

\* no execute_order call is under way
InitSplitIdle ==
    /\ split_parent = NoOrder
    /\ split_price = Zero
    /\ slices = <<>>
    /\ slice_routes = <<>>

\* PaperTradingEngine.__init__ and PerformanceMonitor.__init__
InitPaperState ==
    /\ portfolio = [initial_capital |-> initial_capital,
                    cash |-> initial_capital,
                    positions |-> <<>>, cost_basis |-> <<>>,
                    nav |-> initial_capital, peak_nav |-> initial_capital,
                    weights |-> <<>>, realized_pnl |-> Zero,
                    unrealized_pnl |-> Zero, trading_days |-> 0]
    /\ pending_orders = <<>>
    /\ paper_executed = <<>>
    /\ paper_order_counter = 0
    /\ price_cache = <<>>
    /\ paper_now = 0
    /\ fills_applied = [i \in 1..MaxPaperOrders |-> 0]
    /\ nav_history = <<>>
    /\ returns_history = <<>>
    /\ monitor_alerts = <<>>
    /\ ic_history = <<>>
    /\ volatility_cache = <<>>

\* GateValidationSystem.__init__
InitGateState ==
    /\ trading_days_count = 0
    /\ risk_levels_triggered = {}
    /\ system_uptime_seconds = 0
    /\ total_seconds = 0
    /\ gate_history = <<>>
    /\ gate_returned = <<>>

\* RiskManager.__init__, and a Portfolio at its peak
InitRiskState ==
    /\ current_level = 0
    /\ risk_portfolio = Portfolio(Rat(100, 1), Rat(100, 1))
    /\ risk_ret = [op |-> "init", level |-> 0, drawdown |-> Zero,
                   violations |-> <<>>]

\* no adapter operation, no coroutine and no stage change is under way
InitLiveIdle ==
    /\ adapter = NewAdapter("alpaca", TRUE, FALSE)
    /\ adapter_ret = NoAdapterReturn
    /\ tasks = <<>>
    /\ wire = <<>>
    /\ stage_pc = IdleStage
    /\ observed = <<>>
    /\ InitRiskState

InitOMS ==
    /\ brokers \in BrokerConfigs
    /\ InitOMSState
    /\ InitCTMState(TotalCapital)
    /\ alerts = <<>>
    /\ InitSplitIdle
    /\ InitPaperState
    /\ InitGateState
    /\ InitLiveIdle

NextOMS ==
    \/ \E ord \in OrderInputs : SubmitOrder(ord)
    \/ \E s \in ResponseStatuses : BrokerReturns(s)
    \/ \E t \in BOOLEAN : BrokerRaises(t)
    \/ BackoffElapsed
    \/ SubmitReturned

SpecOMS == InitOMS /\ [][NextOMS]_vars

\* submit_order run as a task that may be cancelled at either await
BrokerAnswers ==
    \/ \E s \in ResponseStatuses : BrokerReturns(s)
    \/ \E t \in BOOLEAN : BrokerRaises(t)

NextOMSShutdown ==
    \/ \E ord \in OrderInputs : SubmitOrder(ord)
    \/ BrokerAnswers
    \/ BackoffElapsed
    \/ SubmitReturned
    \/ CancelBackoff
    \/ \E t \in BOOLEAN : CancelCall(t)
    \/ CancelledTaskEnds

\* every broker call returns or raises, and the event loop's timer ends
\* every sleep; a cancellation may come or not
SpecOMSShutdown ==
    /\ InitOMS
    /\ [][NextOMSShutdown]_vars
    /\ WF_vars(BrokerAnswers)
    /\ WF_vars(BackoffElapsed)

InitCTM ==
    /\ brokers = [b \in BrokerNames |->
                    IF b = "ibkr" THEN "absent" ELSE "demo"]
    /\ InitOMSState
    /\ \E capital \in TotalCapitals : InitCTMState(capital)
    /\ alerts = <<>>
    /\ InitSplitIdle
    /\ InitPaperState
    /\ InitGateState
    /\ InitLiveIdle

NextCTM ==
    \/ \E nav \in NavValues : CanAdvanceStage(nav)
    \/ \E nav \in NavValues : AdvanceStage(nav)
    \/ RollbackStage
    \/ \E dr \in DailyReturns, dd \in Drawdowns : CheckRollbackTriggers(dr, dd)
    \/ RecordSystemFailure
    \/ ResetSystemFailures
    \/ \E d \in TickDays : Tick(d)

SpecCTM == InitCTM /\ [][NextCTM]_vars

InitRisk ==
    /\ brokers = [b \in BrokerNames |->
                    IF b = "ibkr" THEN "absent" ELSE "demo"]
    /\ InitOMSState
    /\ InitCTMState(TotalCapital)
    /\ alerts = <<>>
    /\ InitSplitIdle
    /\ InitPaperState
    /\ InitGateState
    /\ InitLiveIdle

NextRisk ==
    \/ \E nav \in RiskNavs, peak_nav \in RiskPeaks :
          MarkPortfolio(nav, peak_nav)
    \/ AssessRiskLevel
    \/ Check

SpecRisk == InitRisk /\ [][NextRisk]_vars

\* the manager of the demo: 100,000 dollars of capital, default stages, and
\* checks at a NAV of 105,000 (and of 94,000, below the stage loss limit)
DemoCapital == 100000
DemoNavs == {105000, 94000}

InitDemoCTM ==
    /\ brokers = [b \in BrokerNames |->
                    IF b = "ibkr" THEN "absent" ELSE "demo"]
    /\ InitOMSState
    /\ InitCTMState(DemoCapital)
    /\ alerts = <<>>
    /\ InitSplitIdle
    /\ InitPaperState
    /\ InitGateState
    /\ InitLiveIdle

NextDemoCTM ==
    \/ \E nav \in DemoNavs : CanAdvanceStage(nav)
    \/ \E nav \in DemoNavs : AdvanceStage(nav)
    \/ RollbackStage
    \/ \E d \in TickDays : Tick(d)

SpecDemoCTM == InitDemoCTM /\ [][NextDemoCTM]_vars

\* the manager driven by one control loop, with a reader beside it
NextStageSteps ==
    \/ \E nav \in NavValues : BeginAdvance(nav)
    \/ BeginRollback
    \/ StepPointer
    \/ StepClock
    \/ StepBaseline
    \/ StepLog
    \/ Read
    \/ \E d \in TickDays : Tick(d)

SpecStageSteps == InitCTM /\ [][NextStageSteps]_vars

\* execute_order is called once, with any order and price of the input sets
InitSplit ==
    /\ brokers = [b \in BrokerNames |->
                    IF b = "ibkr" THEN "absent" ELSE "demo"]
    /\ InitOMSState
    /\ InitCTMState(TotalCapital)
    /\ alerts = <<>>
    /\ \E sym \in Symbols, side \in {"BUY", "SELL"}, q \in SplitQuantities :
          split_parent = LiveOrder(0, sym, side, Rat(q, 1), "MARKET", <<>>)
    /\ \E p \in SplitPrices : split_price = Rat(p, 1)
    /\ slices = <<>>
    /\ slice_routes = <<>>
    /\ InitPaperState
    /\ InitGateState
    /\ InitLiveIdle

NextSplit ==
    \/ ExecuteOrderSplit
    \/ ExecuteOrderWhole
    \/ RouteSlices

SpecSplit == InitSplit /\ [][NextSplit]_vars

InitPaper ==
    /\ brokers = [b \in BrokerNames |->
                    IF b = "ibkr" THEN "absent" ELSE "demo"]
    /\ InitOMSState
    /\ InitCTMState(TotalCapital)
    /\ alerts = <<>>
    /\ InitSplitIdle
    /\ InitPaperState
    /\ InitGateState
    /\ InitLiveIdle

NextPaper ==
    \/ \E in \in PaperOrderInputs : PaperSubmitOrder(in)
    \/ ExecutePendingOrders
    \/ ForceExecuteAllPending
    \/ \E id \in 1..MaxPaperOrders : CancelOrder(id)
    \/ \E sym \in PaperSymbols, p \in CachePrices : SetPrice(sym, p)
    \/ \E sym \in PaperSymbols, v \in CacheVolatilities :
          SetVolatility(sym, v)
    \/ \E prices \in PriceMaps : UpdatePortfolioNav(prices)
    \/ \E prices \in PriceMaps : RecordDay(prices)
    \/ \E d \in PaperTicks : PaperTick(d)

SpecPaper == InitPaper /\ [][NextPaper]_vars

\* the same engine when orders of any size are submitted
NextPaperLarge ==
    \/ \E in \in OversizeOrderInputs : PaperSubmitOrder(in)
    \/ NextPaper

SpecPaperLarge == InitPaper /\ [][NextPaperLarge]_vars

\* the engine of the demo: BTC-USD at 42,000 dollars with volatility 0.60 and
\* GLD at 180 dollars with volatility 0.12; a buy of 0.5 BTC-USD (21,000
\* dollars) and a buy of 50 GLD (9,000 dollars)
DemoSymbols == {"BTC-USD", "GLD"}
DemoPrices == [s \in DemoSymbols |->
                 IF s = "BTC-USD" THEN Rat(42, 1) ELSE Rat(18, 100)]
DemoVolatilities == [s \in DemoSymbols |->
                       IF s = "BTC-USD" THEN Rat(60, 100) ELSE Rat(12, 100)]
DemoOrderInputs ==
    {[symbol |-> "BTC-USD", side |-> "BUY", quantity |-> Rat(1, 2),
      order_type |-> "MARKET", limit_price |-> <<>>],
     [symbol |-> "GLD", side |-> "BUY", quantity |-> Rat(50, 1),
      order_type |-> "MARKET", limit_price |-> <<>>]}

NextPaperDemo ==
    \/ \E sym \in DemoSymbols : SetPrice(sym, DemoPrices[sym])
    \/ \E sym \in DemoSymbols : SetVolatility(sym, DemoVolatilities[sym])
    \/ \E in \in DemoOrderInputs : PaperSubmitOrder(in)
    \/ \E id \in 1..MaxPaperOrders : CancelOrder(id)

SpecPaperDemo == InitPaper /\ [][NextPaperDemo]_vars

\* the engine when a position is bought, sold with an order far larger
\* than the position, and bought again
LiquidationInputs ==
    {in \in PaperOrderInputs : in.side = "BUY" /\ in.order_type = "MARKET"}
        \cup OversizeOrderInputs

NextPaperLiquidation ==
    \/ \E in \in LiquidationInputs :
          SubmitOrderUpTo(in, MaxLiquidationOrders)
    \/ ExecutePendingOrders
    \/ ForceExecuteAllPending
    \/ \E sym \in PaperSymbols, p \in CachePrices : SetPrice(sym, p)
    \/ \E d \in PaperTicks : PaperTick(d)

SpecPaperLiquidation == InitPaper /\ [][NextPaperLiquidation]_vars

\* one adapter of either class, in demo mode or live, with or without an
\* API key, and the operations of the BrokerAdapter interface on it
InitAdapter ==
    /\ brokers = [b \in BrokerNames |->
                    IF b = "ibkr" THEN "absent" ELSE "demo"]
    /\ InitOMSState
    /\ InitCTMState(TotalCapital)
    /\ alerts = <<>>
    /\ InitSplitIdle
    /\ InitPaperState
    /\ InitGateState
    /\ \E class \in AdapterClasses, demo_mode \in BOOLEAN,
          has_api_key \in BOOLEAN :
            adapter = NewAdapter(class, demo_mode, has_api_key)
    /\ adapter_ret = NoAdapterReturn
    /\ tasks = <<>>
    /\ wire = <<>>
    /\ stage_pc = IdleStage
    /\ observed = <<>>
    /\ InitRiskState

NextAdapter ==
    \/ \E venue \in VenueReplies : AdapterConnect(venue)
    \/ AdapterDisconnect
    \/ \E venue \in VenueReplies : AdapterGetAccountInfo(venue)
    \/ \E venue \in VenueReplies : AdapterSubmitOrder(venue)
    \/ \E venue \in VenueReplies : AdapterGetOrderStatus(venue)
    \/ \E venue \in VenueReplies : AdapterCancelOrder(venue)

SpecAdapter == InitAdapter /\ [][NextAdapter]_vars

\* an order management system over live adapters whose submit_order is
\* started by several tasks
InitTasks ==
    /\ brokers = [b \in BrokerNames |->
                    IF b = "ibkr" THEN "absent" ELSE "live"]
    /\ InitOMSState
    /\ InitCTMState(TotalCapital)
    /\ alerts = <<>>
    /\ InitSplitIdle
    /\ InitPaperState
    /\ InitGateState
    /\ InitLiveIdle

NextTasks ==
    \/ \E broker \in LiveBrokers : TaskCall(broker)
    \/ \E t \in 1..MaxTasks : TaskRequest(t)
    \/ \E t \in 1..MaxTasks, raised \in BOOLEAN : TaskReply(t, raised)
    \/ \E t \in 1..MaxTasks : TaskWake(t)

SpecTasks == InitTasks /\ [][NextTasks]_vars

\* ml_sharpe and traditional_sharpe arguments of validate_phase_3_gates
StrategySharpes == {Rat(1, 2), Rat(3, 5)}

\* a run of count days at a NAV
Run(nav, count) == [v |-> Rat(nav, 1), c |-> count]

\* NAV series recorded by record_day
GateNavHistories ==
    {<<>>,
     <<Run(100, 4), Run(110, 16)>>,
     <<Run(100, 49), Run(80, 1), Run(100, 10)>>,
     <<Run(100, 249), Run(110, 3)>>,
     <<Run(100, 99), Run(50, 1), Run(25, 99), Run(50, 53)>>}

\* the first count entries of a series
RECURSIVE SeriesHead(_, _)
SeriesHead(series, count) ==
    IF count = 0 THEN <<>>
    ELSE IF series[1].c >= count THEN <<[v |-> series[1].v, c |-> count]>>
    ELSE <<series[1]>> \o SeriesHead(Tail(series), count - series[1].c)

\* the daily returns record_day stored along the runs k.. of a NAV series,
\* prev_nav being the NAV before run k
RECURSIVE ReturnsOf(_, _, _)
ReturnsOf(navs, k, prev_nav) ==
    IF k > Len(navs) THEN <<>>
    ELSE LET nav == navs[k].v
             first == IF RLt(Zero, prev_nav)
                      THEN RDiv(RSub(nav, prev_nav), prev_nav) ELSE Zero
             rest == ReturnsOf(navs, k + 1, nav)
             later == AppendRun(AppendRun(<<>>, first, 1), Zero,
                                navs[k].c - 1)
         IN IF rest # <<>> /\ rest[1].v = later[Len(later)].v
            THEN SubSeq(later, 1, Len(later) - 1)
                    \o <<[v |-> rest[1].v,
                          c |-> rest[1].c + later[Len(later)].c]>>
                    \o Tail(rest)
            ELSE later \o rest

\* the alerts record_day raised on the days lo..hi of a NAV series
RECURSIVE AlertsOf(_, _, _, _)
AlertsOf(navs, returns, lo, hi) ==
    IF lo > hi THEN <<>>
    ELSE IF lo = hi
    THEN _check_alerts(SeriesLast(SeriesHead(returns, lo)),
             calculate_max_drawdown(SeriesHead(navs, lo)),
             calculate_rolling_sharpe(SeriesHead(returns, lo), 20), lo)
    ELSE LET mid == (lo + hi) \div 2
         IN AlertsOf(navs, returns, lo, mid)
               \o AlertsOf(navs, returns, mid + 1, hi)

\* the portfolio and its monitor after record_day was called once a day
\* along a NAV path, the portfolio being one unit of an asset priced at the
\* path's NAV
InitMonitored(navs) ==
    /\ portfolio =
          [initial_capital |-> initial_capital, cash |-> Zero,
           positions |-> ("SPY" :> One),
           cost_basis |-> ("SPY" :> initial_capital),
           nav |-> IF navs = <<>> THEN initial_capital ELSE SeriesLast(navs),
           peak_nav |-> ExpandingMax(navs, 1, initial_capital,
                                     [kind |-> "nan", v |-> Zero]).peak,
           weights |-> <<>>, realized_pnl |-> Zero,
           unrealized_pnl |-> Zero, trading_days |-> SeriesLen(navs)]
    /\ pending_orders = <<>>
    /\ paper_executed = <<>>
    /\ paper_order_counter = 0
    /\ price_cache = <<>>
    /\ paper_now = 0
    /\ fills_applied = [i \in 1..MaxPaperOrders |-> 0]
    /\ nav_history = navs
    /\ returns_history = ReturnsOf(navs, 1, initial_capital)
    /\ monitor_alerts = AlertsOf(navs, ReturnsOf(navs, 1, initial_capital),
                                 1, SeriesLen(navs))
    /\ ic_history = <<>>
    /\ volatility_cache = <<>>

InitGates ==
    /\ brokers = [b \in BrokerNames |->
                    IF b = "ibkr" THEN "absent" ELSE "demo"]
    /\ InitOMSState
    /\ InitCTMState(TotalCapital)
    /\ alerts = <<>>
    /\ InitSplitIdle
    /\ \E navs \in GateNavHistories : InitMonitored(navs)
    /\ InitGateState
    /\ InitLiveIdle

NextGates ==
    \/ RecordTradingDay
    \/ \E level \in RiskLevelInputs : RecordRiskLevelTrigger(level)
    \/ \E u \in UptimeInputs : RecordUptime(u[1], u[2])
    \/ \E rolling_ic \in ICInputs : TrackIC(rolling_ic)
    \/ ValidatePhase12Gates
    \/ \E ml_sharpe \in StrategySharpes,
          traditional_sharpe \in {Rat(1, 2)} :
            ValidatePhase3Gates(ml_sharpe, traditional_sharpe)

SpecGates == InitGates /\ [][NextGates]_vars

----------------------------------------------------------------------------
\* Properties of OrderManagementSystem.submit_order (SpecOMS)

AllRaised ==
    /\ Len(call_outcomes) > 0
    /\ \A i \in DOMAIN call_outcomes : call_outcomes[i] = "RAISED"

LastOutcome == call_outcomes[Len(call_outcomes)]

\* C1: within one submit_order call the venue accepts the order at most
\* once, whatever transport failures and retries happen.
C1_AcceptedAtMostOnce ==
    \A id \in DOMAIN venue_accepts : venue_accepts[id] <= 1

\* C2: a further adapter call is made only after the previous one raised;
\* an OrderResponse of any status ends the call at once and is the value
\* submit_order returns, so a broker rejection is never followed by a retry.
C2_RetryOnlyAfterRaise ==
    /\ \A i \in 1..(Len(call_outcomes) - 1) : call_outcomes[i] = "RAISED"
    /\ (Len(call_outcomes) > 0 /\ LastOutcome # "RAISED") =>
          /\ oms_pc = "done"
          /\ oms_result = [broker_order_id |-> cur_order.order_id,
                           status |-> LastOutcome,
                           message |-> [kind |-> "broker", n |-> 0,
                                        broker |-> ""]]
          /\ Len(order_log) = log_base + 1
          /\ order_log[Len(order_log)].attempt = Len(call_outcomes)

C2_Witness ==
    /\ oms_pc = "done"
    /\ call_outcomes = <<"RAISED", "REJECTED">>
    /\ oms_result.status = "REJECTED"

\* C3: when every attempt raises, submit_order calls the adapter exactly 3
\* times, waits 5 s after the first and 10 s after the second failure, does
\* not wait after the third, and returns REJECTED "Failed after 3 attempts".
C3_ExhaustedRetries ==
    /\ \A n \in DOMAIN sleeps : sleeps[n] = 5 * Pow2(n - 1)
    /\ Len(sleeps) <= 2
    /\ (oms_pc = "sleeping") => Len(sleeps) = Len(call_outcomes)
    /\ (oms_pc = "done" /\ AllRaised) =>
          /\ Len(call_outcomes) = 3
          /\ sleeps = <<5, 10>>
          /\ oms_result.status = "REJECTED"
          /\ oms_result.message =
                [kind |-> "failed_after", n |-> 3, broker |-> ""]

C3_Witness ==
    /\ oms_pc = "done"
    /\ call_outcomes = <<"RAISED", "RAISED", "RAISED">>

\* C4: every adapter call of a submit_order call, failed or not, leaves
\* exactly one order_log entry, numbered 1..n in call order.
C4_EveryAttemptLogged ==
    /\ Len(order_log) = log_base + Len(call_outcomes)
    /\ \A k \in DOMAIN call_outcomes : order_log[log_base + k].attempt = k

\* C5: every submit_order call that exhausted its retries has added one to
\* the system-failure counter the transition manager reads and has put a
\* CRITICAL alert on the alert log.
C5_ExhaustionRecorded ==
    LET exhausted == {i \in DOMAIN order_log : order_log[i].error}
        critical == {i \in DOMAIN alerts : alerts[i] = "CRITICAL"}
    IN /\ system_failure_count = Cardinality(exhausted)
       /\ Cardinality(critical) >= Cardinality(exhausted)

\* C16: when the broker the order is routed to is not configured,
\* submit_order returns at once a REJECTED response that names the missing
\* broker; no adapter is called, nothing is logged, the order is not sent
\* to another broker and no retry or backoff follows.
C16_MissingBrokerFailsFast ==
    [][ /\ (oms_pc = "idle" /\ oms_pc' # "idle" /\
            brokers[route_order(cur_order'.symbol)] = "absent") =>
              /\ oms_pc' = "done"
              /\ oms_result'.status = "REJECTED"
              /\ oms_result'.message =
                    [kind |-> "not_available", n |-> 0,
                     broker |-> route_order(cur_order'.symbol)]
              /\ call_outcomes' = <<>>
              /\ sleeps' = <<>>
              /\ UNCHANGED <<order_log, venue_accepts, connected,
                             executed_orders, order_status>>
        /\ (oms_pc # "idle" /\
            brokers[route_order(cur_order.symbol)] = "absent") =>
              /\ oms_pc' = "idle"
              /\ call_outcomes = <<>>
              /\ UNCHANGED <<order_log, venue_accepts, connected,
                             executed_orders, order_status>>
      ]_vars

C16_Witness ==
    /\ oms_pc = "done"
    /\ cur_order.symbol = "AAPL"
    /\ brokers["ibkr"] = "absent"
    /\ oms_result.status = "REJECTED"
    /\ oms_result.message.broker = "ibkr"
    /\ call_outcomes = <<>>

\* the adapter of the routed broker has been handed cur_order
SentToAdapter == oms_pc = "calling" \/ Len(call_outcomes) > 0

\* C17: a LIMIT order without a limit price is refused at submission by the
\* paper engine and by the order management system alike: every order that
\* is pending in the engine or was handed to a broker adapter is either not
\* a LIMIT order or has its limit price set.
C17_LimitOrdersCarryPrice ==
    /\ \A id \in DOMAIN pending_orders :
          (pending_orders[id].order_type = "LIMIT")
             => pending_orders[id].limit_price # <<>>
    /\ (SentToAdapter /\ cur_order.order_type = "LIMIT")
          => cur_order.limit_price # <<>>

----------------------------------------------------------------------------
\* Properties of execute_order, split_order and route_order (SpecSplit)

\* the smallest integer not below a
RCeil(a) == -((-a.n) \div a.d)

Notional == RMul(split_parent.quantity, split_price)

WasSplit == slices # <<>> /\ should_split_order(split_parent, split_price)

RECURSIVE SumQuantity(_)
SumQuantity(orders) ==
    IF orders = <<>> THEN Zero
    ELSE RAdd(orders[1].quantity, SumQuantity(Tail(orders)))

\* C13: an order whose notional exceeds the ceiling is cut into exactly
\* min(max slices, ceil(notional / ceiling)) children, also when the
\* notional is an exact multiple of the ceiling.
C13_SliceCountIsCeiling ==
    WasSplit =>
       LET by_value == RCeil(RDiv(Notional, Rat(50000, 1)))
       IN Len(slices) = IF 5 < by_value THEN 5 ELSE by_value

\* C14: the children of a split carry equal quantities that sum to the
\* parent quantity, keep the parent's symbol and side, and are at most 5;
\* a notional of 2,500,000 gives exactly 5 children.
C14_SlicesPartitionParent ==
    WasSplit =>
       /\ \A i \in DOMAIN slices :
             /\ slices[i].quantity = slices[1].quantity
             /\ slices[i].symbol = split_parent.symbol
             /\ slices[i].side = split_parent.side
       /\ SumQuantity(slices) = split_parent.quantity
       /\ Len(slices) <= 5
       /\ (Notional = Rat(2500000, 1)) => Len(slices) = 5

C14_Witness ==
    /\ WasSplit
    /\ split_parent.quantity = Rat(1001, 1)
    /\ Len(slices) = 3
    /\ slices[3].quantity = Rat(1001, 3)
    /\ slices[3].side = "SELL"

\* the venue the routing rule names for a symbol
LooksCrypto(symbol) ==
    \/ \E t \in crypto_symbols : Contains(Upper(symbol), t)
    \/ \E suffix \in {"-USD", "/USD", "USDT"} : EndsWith(Upper(symbol), suffix)

\* C15: the broker depends on the symbol alone: binance for a symbol that
\* contains a crypto ticker or ends in -USD, /USD or USDT, alpaca for a
\* symbol of the US-ETF list, ibkr for everything else; no ETF ticker goes
\* to the crypto venue; every child of a split goes where its parent goes.
C15_RoutingBySymbol ==
    LET parent_route == route_order(split_parent.symbol) IN
    /\ LooksCrypto(split_parent.symbol) => parent_route = "binance"
    /\ (~LooksCrypto(split_parent.symbol) /\ split_parent.symbol \in us_etfs)
          => parent_route = "alpaca"
    /\ (~LooksCrypto(split_parent.symbol) /\ split_parent.symbol \notin us_etfs)
          => parent_route = "ibkr"
    /\ \A etf \in us_etfs : route_order(etf) = "alpaca"
    /\ \A i \in DOMAIN slice_routes : slice_routes[i] = parent_route

C15_Witness ==
    /\ WasSplit
    /\ split_parent.symbol = "TLT"
    /\ Len(slices) = 5
    /\ slice_routes = <<"alpaca", "alpaca", "alpaca", "alpaca", "alpaca">>

----------------------------------------------------------------------------
\* Properties of CapitalTransitionManager (SpecCTM)

\* the stage-relative return (nav - start)/start is below -loss_limit, as a
\* comparison of rationals, for any start other than 0
ReturnBelowLossLimit(nav, start, loss_limit) ==
    IF start > 0 THEN (nav - start) * 100 < -loss_limit * start
    ELSE (nav - start) * 100 > -loss_limit * start

\* C6: advance_stage moves the pointer from i to i+1 exactly when
\* can_advance_stage(current_nav) holds, then restarts the stage clock and
\* takes current_nav as the new baseline; otherwise it returns (false, ..)
\* and leaves pointer, clock, baseline, failure counter and log alone.
C6_AdvanceStage ==
    [][ /\ (ctm_ret'.op = "advance_stage") =>
              IF can_advance_stage(ctm_ret'.nav).ok
              THEN /\ ctm_ret'.ok
                   /\ current_stage' = current_stage + 1
                   /\ stage_start_date' = now'
                   /\ stage_start_nav' = ctm_ret'.nav
              ELSE /\ ~ctm_ret'.ok
                   /\ UNCHANGED <<current_stage, stage_start_date,
                                  stage_start_nav, system_failure_count,
                                  transition_log>>
        /\ (current_stage' = current_stage + 1) =>
              /\ current_stage < 3
              /\ now - stage_start_date >=
                     7 * stages[current_stage + 1].duration_weeks
              /\ stage_start_nav > 0 =>
                     ~ReturnBelowLossLimit(stage_start_nav', stage_start_nav,
                          stages[current_stage + 1].loss_limit)
      ]_vars

C6_Witness ==
    /\ ctm_ret.op = "advance_stage"
    /\ ctm_ret.ok
    /\ current_stage = 2
    /\ stage_start_nav = 95
    /\ stage_start_date = now

\* C7 as stated: can_advance_stage is false when the stage is younger than
\* its required duration, and false when the stage-relative return is below
\* -loss_limit, for every stage_start_nav.
C7_CanAdvanceAnyBaseline ==
    (ctm_ret.op = "can_advance_stage") =>
       /\ (get_days_in_stage < required_days(current_stage_info))
             => ~ctm_ret.ok
       /\ (stage_start_nav # 0 /\
           ReturnBelowLossLimit(ctm_ret.nav, stage_start_nav,
                                current_stage_info.loss_limit))
             => ~ctm_ret.ok

\* C7 amended: can_advance_stage is false when the stage is younger than its
\* required duration, whatever current_nav is, and false when
\* stage_start_nav is positive and the stage-relative return is below
\* -loss_limit, whatever the elapsed time.
C7_CanAdvancePositiveBaseline ==
    (ctm_ret.op = "can_advance_stage") =>
       /\ (get_days_in_stage < required_days(current_stage_info))
             => ~ctm_ret.ok
       /\ (stage_start_nav > 0 /\
           ReturnBelowLossLimit(ctm_ret.nav, stage_start_nav,
                                current_stage_info.loss_limit))
             => ~ctm_ret.ok

C7_Witness ==
    /\ ctm_ret.op = "can_advance_stage"
    /\ ~ctm_ret.ok
    /\ current_stage = 1
    /\ get_days_in_stage >= 28
    /\ stage_start_nav = 105
    /\ ctm_ret.nav = 94

\* C8: rollback_stage moves the pointer from i to i-1 for every i > 0 and
\* at i = 0 returns (false, ..) and changes nothing; the pointer changes
\* only by +1 in a successful advance or -1 in a successful rollback and
\* stays within 0 .. number of stages - 1.
C8_StagePointer ==
    [][ /\ (ctm_ret'.op = "rollback_stage") =>
              IF current_stage > 0
              THEN ctm_ret'.ok /\ current_stage' = current_stage - 1
              ELSE /\ ~ctm_ret'.ok
                   /\ UNCHANGED <<current_stage, stage_start_date,
                                  stage_start_nav, system_failure_count,
                                  transition_log, total_capital>>
        /\ (current_stage' # current_stage) =>
              \/ /\ current_stage' = current_stage + 1
                 /\ ctm_ret'.op = "advance_stage" /\ ctm_ret'.ok
              \/ /\ current_stage' = current_stage - 1
                 /\ ctm_ret'.op = "rollback_stage" /\ ctm_ret'.ok
        /\ current_stage' \in 0..3
      ]_vars

C8_Witness ==
    /\ ctm_ret.op = "rollback_stage"
    /\ ctm_ret.ok
    /\ current_stage = 1
    /\ system_failure_count = 2
    /\ get_days_in_stage = 0

\* C9: check_rollback_triggers returns ROLLBACK_TO_PAPER whenever the
\* failure count has reached the limit of 2, whatever daily_return and
\* cumulative_dd are.
C9_FailureLimitWins ==
    (ctm_ret.op = "check_rollback_triggers" /\ system_failure_count >= 2)
       => ctm_ret.signal = "ROLLBACK_TO_PAPER"

\* C10: a trigger check changes neither stage pointer, stage clock,
\* stage-start NAV nor failure counter; the counter grows only in
\* record_system_failure and drops (to zero) only in reset_system_failures.
C10_TriggerCheckObserves ==
    [][ /\ (ctm_ret'.op = "check_rollback_triggers") =>
              UNCHANGED <<current_stage, stage_start_date, stage_start_nav,
                          system_failure_count>>
        /\ (system_failure_count' > system_failure_count) =>
              /\ ctm_ret'.op = "record_system_failure"
              /\ system_failure_count' = system_failure_count + 1
        /\ (system_failure_count' < system_failure_count) =>
              /\ ctm_ret'.op = "reset_system_failures"
              /\ system_failure_count' = 0
      ]_vars

C10_Witness ==
    /\ ctm_ret.op = "check_rollback_triggers"
    /\ ctm_ret.signal = "ROLLBACK_TO_PAPER"
    /\ system_failure_count = 2
    /\ current_stage = 1

\* the operation of the step appends an event to the transition log
LogsAnEvent(ret) ==
    \/ ret.op \in {"advance_stage", "rollback_stage"} /\ ret.ok
    \/ ret.op = "check_rollback_triggers" /\ ret.signal # "None"

LoggedAction(ret) ==
    IF ret.op = "advance_stage" THEN "ADVANCE"
    ELSE IF ret.op = "rollback_stage" THEN "ROLLBACK"
    ELSE ret.signal

\* C18: a successful advance_stage, a successful rollback_stage and a
\* check_rollback_triggers that returns a signal each append exactly one
\* event to the transition log; every other call appends none; the events
\* already in the log are neither removed nor changed.
C18_LogAppendOnly ==
    [][ IF LogsAnEvent(ctm_ret')
        THEN /\ Len(transition_log') = Len(transition_log) + 1
             /\ SubSeq(transition_log', 1, Len(transition_log))
                    = transition_log
             /\ transition_log'[Len(transition_log')].action
                    = LoggedAction(ctm_ret')
        ELSE transition_log' = transition_log
      ]_vars

C18_Witness ==
    /\ Len(transition_log) = 3
    /\ transition_log[1].action = "ADVANCE"
    /\ transition_log[2].action = "ROLLBACK_TO_PAPER"
    /\ transition_log[3].action = "ROLLBACK"
    /\ ctm_ret.op = "rollback_stage"

\* C19: every ADVANCE event records the stage index before the move in
\* from_stage and the index after it in to_stage, to_stage = from_stage + 1;
\* every ROLLBACK event has to_stage = from_stage - 1.
C19_EventStages ==
    \A i \in DOMAIN transition_log :
       LET e == transition_log[i] IN
       /\ (e.action = "ADVANCE") => e.to_stage = e.from_stage + 1
       /\ (e.action = "ROLLBACK") => e.to_stage = e.from_stage - 1

----------------------------------------------------------------------------
\* Properties of PaperTradingEngine and its portfolio (SpecPaper,
\* SpecPaperLarge)

ResultsOf(id) ==
    {k \in DOMAIN paper_executed : paper_executed[k].order_id = id}

\* C11: whatever sequence of submit_order, execute_pending_orders,
\* force_execute_all_pending and cancel_order is called, every order id has
\* at most one execution result, its fill has changed the portfolio at most
\* once, and an order that has a result is no longer pending, so calling an
\* execute entry point again does nothing for it.
C11_ExecutedAtMostOnce ==
    \A id \in DOMAIN fills_applied :
       /\ Cardinality(ResultsOf(id)) <= 1
       /\ fills_applied[id] <= Cardinality(ResultsOf(id))
       /\ (id \in DOMAIN pending_orders) => ResultsOf(id) = {}

C11_Witness ==
    /\ pending_orders = <<>>
    /\ Len(paper_executed) = 2
    /\ paper_executed[1].order_id = 1 /\ paper_executed[1].status = "FILLED"
    /\ paper_executed[2].order_id = 2 /\ paper_executed[2].status = "FILLED"
    /\ paper_executed[2].side = "SELL"
    /\ fills_applied = <<1, 1>>
    /\ portfolio.positions = <<>>

DrawdownInRange ==
    /\ RLe(portfolio.nav, portfolio.peak_nav)
    /\ RLe(Zero, calculate_drawdown(portfolio))
    /\ RLe(calculate_drawdown(portfolio), One)

\* C12: in every state the paper portfolio reaches through executions,
\* update_portfolio_nav and record_day, peak_nav >= nav and
\* 0 <= calculate_drawdown() <= 1, and peak_nav never decreases.
C12_PeakAndDrawdown ==
    /\ []DrawdownInRange
    /\ [][RLe(portfolio.peak_nav, portfolio.peak_nav')]_vars

----------------------------------------------------------------------------
\* Properties of GateValidationSystem (SpecGates)

\* every gate entry of a validation result has passed = true
EveryGatePassed(result) ==
    \A g \in DOMAIN result.gates : result.gates[g].passed = TRUE

GateResults ==
    {gate_history[k] : k \in DOMAIN gate_history}
        \cup {gate_returned[k] : k \in DOMAIN gate_returned}

\* C20: for every monitor reading and every value of the tracked counters,
\* the result of validate_phase_1_2_gates and of validate_phase_3_gates has
\* overall_passed true if and only if every entry of its gates map has
\* passed = true.
C20_OverallIsConjunction ==
    \A result \in GateResults :
        result.overall_passed <=> EveryGatePassed(result)

\* a Phase 1+2 result with the rolling IC gate in it, where the trading
\* days gate passed, the Sharpe gate failed and the overall verdict is fail
C20_Witness ==
    \E k \in DOMAIN gate_returned :
        /\ gate_returned[k].phase = "Phase 1+2"
        /\ "rolling_ic" \in DOMAIN gate_returned[k].gates
        /\ gate_returned[k].gates["min_trading_days"].passed
        /\ ~gate_returned[k].gates["sharpe_ratio"].passed
        /\ ~gate_returned[k].overall_passed

\* the step is a validate_phase_1_2_gates call, which alone appends to the
\* validation history
Phase12Validated == gate_history' # gate_history

\* the ICPoints of the monitor that hold a number
ValidICPoints == SelectSeq(ic_history, LAMBDA p : p.kind # "nan")

C22_WarningsExplainShortfalls ==
    \A k \in DOMAIN gate_history :
        \A g \in DOMAIN gate_history[k].gates :
            ~gate_history[k].gates[g].passed <=>
                \E w \in DOMAIN gate_history[k].warnings :
                    gate_history[k].warnings[w] = g

\* the longest of the windows 252, 60, 20 the recorded returns fill; 20
\* when they fill none
LongestWindow ==
    IF SeriesLen(returns_history) >= 252 THEN 252
    ELSE IF SeriesLen(returns_history) >= 60 THEN 60
    ELSE 20

\* C23: the Sharpe gate of validate_phase_1_2_gates reads the rolling
\* Sharpe of the longest window (252, then 60, then 20 days) the recorded
\* return history fills; a shorter window is used only when the history is
\* shorter than the longer one.
C23_LongestAvailableWindow ==
    [][Phase12Validated =>
        LET sharpe_ratio ==
                gate_history'[Len(gate_history')].gates["sharpe_ratio"]
        IN /\ sharpe_ratio.window_days = LongestWindow
           /\ sharpe_ratio.passed <=>
                 SharpeAbove(calculate_rolling_sharpe(returns_history,
                                                      LongestWindow),
                             min_sharpe)]_vars

----------------------------------------------------------------------------
\* Properties of the paper executions (SpecPaper, SpecPaperLarge)

\* the positions in executed_orders of the results a step appends
NewResults == (Len(paper_executed) + 1)..Len(paper_executed')

\* the price _execute_single_order starts from for a pending order it does
\* not reject: the current price, or the limit price when there is none
ReferencePrice(order) ==
    IF get_current_price(order.symbol).n # 0
    THEN get_current_price(order.symbol)
    ELSE order.limit_price[1]

\* C24: with the non-negative slippage parameters of the engine, for every
\* volatility and order size, an executed BUY has fill_price >= the
\* reference price of its fill and an executed SELL has fill_price <= it.
C24_SlippageAgainstTheTrader ==
    [][\A k \in NewResults :
          LET result == paper_executed'[k]
              reference == ReferencePrice(pending_orders[result.order_id])
          IN result.status # "REJECTED" =>
                /\ result.side = "BUY" => RLe(reference, result.fill_price)
                /\ result.side = "SELL" => RLe(result.fill_price, reference)
      ]_vars

\* a buy filled above the price of 2 and a sell of held shares filled below
C24_Witness ==
    /\ \E k \in DOMAIN paper_executed :
          /\ paper_executed[k].side = "BUY"
          /\ paper_executed[k].status = "FILLED"
          /\ RLt(Rat(2, 1), paper_executed[k].fill_price)
    /\ \E k \in DOMAIN paper_executed :
          /\ paper_executed[k].side = "SELL"
          /\ RLt(Zero, paper_executed[k].fill_quantity)
          /\ RLt(paper_executed[k].fill_price, Rat(2, 1))

\* the pending orders whose submission time plus the delay of their type
\* (MARKET 60 s, LIMIT 300 s, TWAP one interval of 15 minutes) is reached
ReachedOrders ==
    {i \in DOMAIN pending_orders :
        LET order == pending_orders[i]
            delay == IF order.order_type = "MARKET" THEN 60
                     ELSE IF order.order_type = "LIMIT" THEN 300
                     ELSE 15 * 60
        IN order.submitted_time + delay <= paper_now}

\* the step executes the pending orders ids, each once, and nothing else:
\* the other orders stay pending as they were and no fill is applied to the
\* portfolio for them, and no executed order is pending afterwards
ExecutesExactly(ids) ==
    /\ {paper_executed'[k].order_id : k \in NewResults} = ids
    /\ Cardinality(NewResults) = Cardinality(ids)
    /\ pending_orders' =
          [i \in DOMAIN pending_orders \ ids |-> pending_orders[i]]
    /\ \A i \in DOMAIN fills_applied :
          i \notin ids => fills_applied'[i] = fills_applied[i]
    /\ ids = {} => portfolio' = portfolio
    /\ \A k \in DOMAIN paper_executed' :
          paper_executed'[k].order_id \notin DOMAIN pending_orders'

\* C25: execute_pending_orders executes exactly the pending orders whose
\* expected execution time (submission time plus the delay of the order
\* type) has been reached and leaves the others pending and the portfolio
\* untouched on their behalf; force_execute_all_pending executes every
\* pending order; after either call no executed order is still pending.
C25_DueOrdersExecuted ==
    [][/\ ExecutePendingOrders => ExecutesExactly(ReachedOrders)
       /\ ForceExecuteAllPending => ExecutesExactly(DOMAIN pending_orders)
      ]_vars

\* the first order was executed and a LIMIT order submitted at the
\* current instant, 15 minutes after the start, is left pending
C25_Witness ==
    /\ \E k \in DOMAIN paper_executed : paper_executed[k].order_id = 1
    /\ 2 \in DOMAIN pending_orders
    /\ pending_orders[2].order_type = "LIMIT"
    /\ pending_orders[2].submitted_time = 900
    /\ paper_now = 900

\* cash and the position in a symbol before the fill of the k-th result of
\* a step, from the portfolio before the step and the fills before k
RECURSIVE CashBefore(_)
CashBefore(k) ==
    IF k = Len(paper_executed) + 1 THEN portfolio.cash
    ELSE LET fill == paper_executed'[k - 1]
             gross == RMul(fill.fill_quantity, fill.fill_price)
         IN IF fill.side = "BUY"
            THEN RSub(CashBefore(k - 1), RAdd(gross, fill.commission))
            ELSE RAdd(CashBefore(k - 1), RSub(gross, fill.commission))

RECURSIVE HeldBefore(_, _)
HeldBefore(symbol, k) ==
    IF k = Len(paper_executed) + 1
    THEN DictGet(portfolio.positions, symbol, Zero)
    ELSE LET fill == paper_executed'[k - 1]
         IN IF fill.symbol # symbol THEN HeldBefore(symbol, k - 1)
            ELSE IF fill.side = "BUY"
            THEN RAdd(HeldBefore(symbol, k - 1), fill.fill_quantity)
            ELSE RSub(HeldBefore(symbol, k - 1), fill.fill_quantity)

\* C26: on execution a BUY's fill quantity is such that fill_quantity *
\* fill_price * (1 + commission_rate) does not exceed the cash held before
\* the fill, a SELL's fill quantity does not exceed the held position, no
\* position ever becomes negative, and the status is FILLED if and only if
\* the fill quantity equals the requested quantity and PARTIAL otherwise.
C26_FillsClamped ==
    [][/\ \A k \in NewResults :
             LET result == paper_executed'[k]
             IN result.status # "REJECTED" =>
                   /\ result.side = "BUY" =>
                         RLe(RMul(RMul(result.fill_quantity,
                                       result.fill_price),
                                  RAdd(One, Rat(1, 1000))),
                             CashBefore(k))
                   /\ result.side = "SELL" =>
                         RLe(result.fill_quantity,
                             HeldBefore(result.symbol, k))
                   /\ result.status = "FILLED" <=>
                         result.fill_quantity = result.requested_quantity
                   /\ result.status # "FILLED" => result.status = "PARTIAL"
       /\ \A symbol \in DOMAIN portfolio'.positions :
             RLe(Zero, portfolio'.positions[symbol])
      ]_vars

----------------------------------------------------------------------------
\* Properties of the broker adapters (SpecAdapter)

\* C27: no adapter operation ends with an exception; connect on a live
\* adapter that is not yet connected returns false when the venue is
\* unreachable or rejects the credentials; submit_order on a live adapter
\* returns REJECTED when the broker's reply is an error or cannot be parsed.
C27_FailuresAreReturned ==
    /\ adapter_ret.outcome # "raised"
    /\ (/\ adapter_ret.op = "connect"
        /\ ~adapter_ret.demo_mode
        /\ ~adapter_ret.was_connected
        /\ adapter_ret.venue \in {"unreachable", "unauthorized"})
          => adapter_ret.value = "False"
    /\ (/\ adapter_ret.op = "submit_order"
        /\ ~adapter_ret.demo_mode
        /\ adapter_ret.venue \in {"unauthorized", "error", "malformed"})
          => adapter_ret.value = "REJECTED"

InterfaceOperations ==
    {"connect", "get_account_info", "submit_order", "get_order_status",
     "cancel_order"}

\* C28: on an adapter in demo mode, whatever its API key, every interface
\* operation returns a synthetic response (the demo account, a FILLED
\* order, true) without going through the HTTP session.
C28_DemoModeIsSynthetic ==
    (adapter_ret.op \in InterfaceOperations /\ adapter_ret.demo_mode) =>
        /\ adapter_ret.outcome = "returned"
        /\ ~adapter_ret.session_used
        /\ adapter_ret.value \in {"True", "AccountInfo", "FILLED"}

----------------------------------------------------------------------------
\* Properties of concurrent submissions (SpecTasks)

\* the coroutines whose request to a broker is outstanding
Outstanding(broker) ==
    {t \in DOMAIN tasks :
        tasks[t].pc = "awaiting" /\ tasks[t].broker = broker}

\* C29: of the submit_order calls in flight for one broker at most one has
\* a request outstanding at the broker at any time, and the requests reach
\* the broker in the order of the calls; calls for different brokers may
\* overlap.
C29_SameBrokerSerialized ==
    /\ \A broker \in LiveBrokers : Cardinality(Outstanding(broker)) <= 1
    /\ \A i, j \in DOMAIN wire :
          (/\ i < j
           /\ wire[i].kind = "request"
           /\ wire[j].kind = "request"
           /\ wire[i].broker = wire[j].broker)
             => wire[i].task <= wire[j].task

----------------------------------------------------------------------------
\* Properties of readers of the stage (SpecStageSteps)

----------------------------------------------------------------------------
\* C31: a cancellation that arrives during a backoff wait ends the coroutine
\* there, with no broker call, no log entry and no change to the order; once
\* cancelled, the only step left is the end of the task, and a venue takes an
\* order only during a call made for it, under an id no later order gets.
\* Without cancellation a loop makes at most max_retries calls and, as every
\* call returns or raises and every sleep ends, it always comes to its end.
CancelledInBackoff ==
    /\ oms_pc = "cancelled"
    /\ call_outcomes # <<>>
    /\ call_outcomes[Len(call_outcomes)] = "RAISED"

C31_RetryLoopNeverBlocksShutdown ==
    /\ [][(oms_pc = "sleeping" /\ oms_pc' = "cancelled") =>
             UNCHANGED <<venue_accepts, call_outcomes, order_log, connected,
                         order_status, executed_orders, attempt, sleeps>>]_vars
    /\ [][oms_pc = "cancelled" =>
             /\ oms_pc' = "idle"
             /\ UNCHANGED <<venue_accepts, order_log, connected>>]_vars
    /\ [][\A i \in DOMAIN venue_accepts :
             venue_accepts'[i] # venue_accepts[i] =>
                oms_pc = "calling" /\ cur_order.order_id = i]_vars
    /\ [][(oms_pc = "idle" /\ oms_pc' # "idle") =>
             /\ order_counter' > order_counter
             /\ cur_order'.order_id = order_counter']_vars
    /\ [](Len(call_outcomes) <= max_retries /\ attempt < max_retries)
    /\ (oms_pc \in {"calling", "sleeping"}) ~> (oms_pc \in {"done", "cancelled"})

\* a task cancelled in the wait that followed a failed attempt
C31_Witness ==
    /\ CancelledInBackoff
    /\ Len(sleeps) = Len(call_outcomes)
    /\ venue_accepts[cur_order.order_id] <= Len(call_outcomes)

----------------------------------------------------------------------------
\* C32: an order that submit_order has answered for with REJECTED (no broker,
\* a broker-side rejection or exhausted retries) no longer reads PENDING: its
\* own status field carries the terminal status.
C32_RejectedOrderNotPending ==
    (oms_pc = "done" /\ oms_result.status = "REJECTED") =>
        order_status[cur_order.order_id] # "PENDING"

----------------------------------------------------------------------------
\* C33: every update_portfolio_nav that leaves nav > 0 writes per-symbol
\* weights whose sum is at most 1 and a cash weight equal to 1 minus that
\* sum, whatever price map it was given.
RECURSIVE SymbolWeightSum(_, _)
SymbolWeightSum(weights, symbols) ==
    IF symbols = {} THEN Zero
    ELSE LET s == CHOOSE s \in symbols : TRUE
         IN RAdd(weights[s], SymbolWeightSum(weights, symbols \ {s}))

WeightsAddUp(pf) ==
    LET total == SymbolWeightSum(pf.weights, DOMAIN pf.weights \ {"CASH"})
    IN /\ RLe(total, One)
       /\ pf.weights["CASH"] = RSub(One, total)

C33_WeightsSumToOne ==
    [][((\E prices \in PriceMaps : UpdatePortfolioNav(prices))
          /\ RLt(Zero, portfolio'.nav)) => WeightsAddUp(portfolio')]_vars

----------------------------------------------------------------------------
\* C34 as stated: with total_capital = 100000 and stage_start_nav = 100000,
\* can_advance_stage(105000) returns true, also on the freshly constructed
\* manager of the demo.
ScenarioA ==
    /\ ctm_ret.op = "can_advance_stage"
    /\ ctm_ret.nav = 105000
    /\ total_capital = 100000
    /\ stage_start_nav = 100000

C34_ScenarioAReturnsTrue ==
    ScenarioA => ctm_ret.ok

\* C34 amended: in scenario A can_advance_stage(105000) returns true exactly
\* when the manager is below the final stage and has spent the stage's
\* required days in it; on a freshly constructed manager with the default
\* stages it returns false, 28 days being still needed.
FreshlyConstructed ==
    /\ current_stage = 0
    /\ now = 0
    /\ transition_log = <<>>

C34_ScenarioANeedsStageDuration ==
    ScenarioA =>
       /\ ctm_ret.ok <=>
             /\ current_stage < Len(stages) - 1
             /\ get_days_in_stage >= current_stage_info.duration_weeks * 7
       /\ FreshlyConstructed =>
             /\ ~ctm_ret.ok
             /\ ctm_ret.signal = "duration"
             /\ current_stage_info.duration_weeks * 7 - get_days_in_stage = 28

\* the check succeeds on the manager of the demo once 28 days have passed
C34_Witness ==
    /\ ScenarioA
    /\ ctm_ret.ok
    /\ current_stage = 0
    /\ get_days_in_stage = 28

----------------------------------------------------------------------------
\* C35 as stated: an order of 21,000 dollars notional submitted with
\* volatility 0.6 is stamped with the slippage 0.0005 + 0.06 = 0.0605, no
\* size term being added.
NewOrder == pending_orders'[paper_order_counter + 1]

Submits(in) ==
    /\ PaperSubmitOrder(in)
    /\ paper_order_counter' = paper_order_counter + 1

ScenarioB(in) ==
    /\ Submits(in)
    /\ get_current_volatility(in.symbol) = Rat(6, 10)
    /\ RMul(in.quantity, get_current_price(in.symbol)) = Rat(21, 1)

OrderNotional(in) == RMul(in.quantity, get_current_price(in.symbol))

SizePenalty(notional) ==
    IF RLe(notional, Rat(10, 1)) THEN Zero
    ELSE RMul(RDiv(RSub(notional, Rat(10, 1)), Rat(10, 1)), Rat(2, 10000))

----------------------------------------------------------------------------
\* C36: assess_risk_level returns the highest level whose trigger (0, 5, 8,
\* 12, 15 percent) is at most the drawdown from the peak NAV, returns 0 when
\* nav >= peak_nav, never returns a lower level for a larger drawdown, and
\* leaves current_level as it was.
DrawdownFromPeak(pf) ==
    IF pf.peak_nav = Zero THEN Zero
    ELSE RDiv(RSub(pf.peak_nav, pf.nav), pf.peak_nav)

TriggerPercent == <<0, 5, 8, 12, 15>>

ReachedLevels(pf) ==
    {l \in 0..4 : RLe(Rat(TriggerPercent[l + 1], 100), DrawdownFromPeak(pf))}

RiskPortfolios ==
    {Portfolio(Rat(nav, 1), Rat(peak_nav, 1)) :
        nav \in RiskNavs, peak_nav \in RiskPeaks}

C36_AssessRiskLevel ==
    [][AssessRiskLevel =>
         /\ ReachedLevels(risk_portfolio) # {} =>
               /\ risk_ret'.level \in ReachedLevels(risk_portfolio)
               /\ \A l \in ReachedLevels(risk_portfolio) : l <= risk_ret'.level
         /\ RLe(risk_portfolio.peak_nav, risk_portfolio.nav) =>
               risk_ret'.level = 0
         /\ \A pf \in RiskPortfolios :
               RLe(DrawdownFromPeak(pf), DrawdownFromPeak(risk_portfolio)) =>
                  assess_risk_level(pf) <= risk_ret'.level
         /\ current_level' = current_level]_vars

\* a drawdown of exactly 5 percent is assessed as level 1 while the manager
\* still holds level 3 from an earlier check
C36_Witness ==
    /\ risk_ret.op = "assess_risk_level"
    /\ risk_ret.level = 1
    /\ risk_portfolio = Portfolio(Rat(95, 1), Rat(100, 1))
    /\ current_level = 3

----------------------------------------------------------------------------
\* C37: an executed LIMIT BUY has fill_price <= limit_price and an executed
\* LIMIT SELL has fill_price >= limit_price.
C37_LimitPriceRespected ==
    [][\A k \in NewResults :
          LET result == paper_executed'[k]
              order == pending_orders[result.order_id]
          IN (order.order_type = "LIMIT" /\ result.status # "REJECTED") =>
                /\ order.side = "BUY" =>
                      RLe(result.fill_price, order.limit_price[1])
                /\ order.side = "SELL" =>
                      RLe(order.limit_price[1], result.fill_price)
      ]_vars

----------------------------------------------------------------------------
\* C38: with positive quantities and positive market prices, whatever the
\* size of the orders, portfolio cash is never negative and every execution
\* that is not rejected has a strictly positive fill_price.
C38_CashAndFillPricePositive ==
    /\ RLe(Zero, portfolio.cash)
    /\ \A k \in DOMAIN paper_executed :
          paper_executed[k].status # "REJECTED" =>
             RLt(Zero, paper_executed[k].fill_price)

----------------------------------------------------------------------------
\* C39: rollback_stage leaves stage_start_nav and system_failure_count (and
\* total_capital) as they were and sets the stage clock to now when it
\* succeeds; stage_start_nav is total_capital until the first successful
\* advance and changes only in a successful advance, to that advance's NAV;
\* and can_advance_stage measures the stage return from it, also after a
\* rollback.
LastEventIsRollback ==
    /\ transition_log # <<>>
    /\ transition_log[Len(transition_log)].action = "ROLLBACK"

C39_RollbackKeepsBaseline ==
    /\ [][RollbackStage =>
             /\ UNCHANGED <<stage_start_nav, system_failure_count,
                            total_capital>>
             /\ ctm_ret'.ok => stage_start_date' = now]_vars
    /\ [][stage_start_nav' # stage_start_nav =>
             /\ ctm_ret'.op = "advance_stage"
             /\ ctm_ret'.ok
             /\ stage_start_nav' = ctm_ret'.nav]_vars
    /\ [](transition_log = <<>> => stage_start_nav = total_capital)
    /\ []((/\ ctm_ret.op = "can_advance_stage"
           /\ current_stage < Len(stages) - 1
           /\ get_days_in_stage >= required_days(current_stage_info)
           /\ stage_start_nav > 0)
          => (ctm_ret.ok <=>
                ~ReturnBelowLossLimit(ctm_ret.nav, stage_start_nav,
                                      current_stage_info.loss_limit)))

\* after an advance at a NAV of 105 and a rollback, a NAV of 95 is refused:
\* it is 9.5 percent below 105, though only 5 percent below the capital
C39_Witness ==
    /\ LastEventIsRollback
    /\ ctm_ret.op = "can_advance_stage"
    /\ ctm_ret.nav = 95
    /\ ~ctm_ret.ok
    /\ ctm_ret.signal = "loss"
    /\ total_capital = 100
    /\ stage_start_nav = 105
    /\ system_failure_count = 1

----------------------------------------------------------------------------
\* C40: after every record_day the monitor's calculate_max_drawdown is at
\* least the portfolio's current drawdown from peak_nav, and it is not
\* smaller than it was before that record_day.
CurrentDrawdown(pf) ==
    IF pf.peak_nav = Zero THEN Zero
    ELSE RDiv(RSub(pf.peak_nav, pf.nav), pf.peak_nav)

C40_MaxDrawdownCoversCurrent ==
    [][(\E prices \in PriceMaps : RecordDay(prices)) =>
          LET before == calculate_max_drawdown(nav_history)
              after == calculate_max_drawdown(nav_history')
          IN /\ after.kind = "num"
             /\ RLe(CurrentDrawdown(portfolio'), after.v)
             /\ before.kind = "num" => RLe(before.v, after.v)]_vars

====
